---- MODULE Spec2Model ----
(***************************************************************************)
(* A model of the Conduit gateway's request pipeline: the sliding-window   *)
(* rate limiter, the per-deployment circuit breaker, the router with its   *)
(* fallback chain and the completion orchestrator with its spend ledger    *)
(* and request log.                                                        *)
(*                                                                         *)
(* The specifications share the clock `now`:                               *)
(*   SpecCB    one ModelDeployment object driven through record_success /  *)
(*             record_failure (core/router/health.py); LiveCB is SpecCB    *)
(*             with a clock that keeps advancing                           *)
(*   SpecRL    concurrent RateLimiter.check calls on one identifier        *)
(*             (core/auth/rate_limiter.py)                                 *)
(*   SpecPipe  concurrent chat-completion requests of one principal        *)
(*             (schemas/completion.py, api/deps.py, db/session.py,         *)
(*             core/router/engine.py)                                      *)
(*   SpecCache the two-tier response cache (core/cache)                    *)
(*   SpecReq   one request, step by step, with its trace and its body      *)
(*             (schemas/completion.py)                                     *)
(*   SpecDep   the model_deployments table and RouterEngine.route          *)
(*   SpecAuth  the api_keys table and get_api_key (api/deps.py)            *)
(*   SpecWrr   one call of WeightedRoundRobinStrategy.rank                 *)
(*   SpecHash  the exact-cache key of two (model, messages) inputs         *)
(* Time is counted in seconds.                                             *)
(***************************************************************************)
EXTENDS Integers, Sequences, FiniteSets, Bags, TLC

VARIABLES
    now,        \* the wall clock (datetime.now / time.time), in seconds
    cb_dep,     \* SpecCB: the ModelDeployment object's health fields
    cb_call,    \* SpecCB: the last breaker call: its name, its argument, its time
    cb_fails,   \* SpecCB: record_failure calls since the last record_success
    rl_zset,    \* SpecRL: the identifier's sorted set in the KV: a bag of scores
    rl_expire_at, \* SpecRL: when the KV drops the key (EXPIRE), or NULL
    rl_call,    \* SpecRL: each worker's check call: position, captured now, result
    rl_admitted, \* SpecRL: every unit the script admitted so far, by its score
    key,        \* SpecPipe: the principal's api_keys row (committed)
    request_logs, \* SpecPipe: the committed request_logs rows, in commit order
    db_dep,     \* SpecPipe: the committed health fields of each deployment row
    key_lock,   \* SpecPipe: the transaction holding the api_keys row lock
    dep_lock,   \* SpecPipe: per deployment row, the transaction holding its lock
    rpm_zset,   \* SpecPipe: the KV sorted set rpm:key:<id>
    cache,      \* SpecPipe: the (model, prompt) keys the response cache holds
    rq,         \* SpecPipe: each request's task: position, session, locals
    exact,      \* SpecCache: Tier 1: the KV's entry under each prompt hash
    cache_entries, \* SpecCache: Tier 2: the cache_entries rows, in insertion order
    cache_call, \* SpecCache: the last CacheManager call and what it returned
    cache_stored, \* SpecCache: per prompt hash, the last store since the last clear
    cache_promoted, \* SpecCache: per prompt hash, the last promotion since the last clear
    cache_ops,  \* SpecCache: CacheManager calls made so far
    rr,         \* SpecReq: the request: its inputs, its position, its locals
    rr_tx,       \* SpecReq: the request's database session
    rr_db,       \* SpecReq: what is committed: spend, log rows, health; the KV buckets
    rr_trace,    \* SpecReq: the steps the request has run, in order
    rr_body,     \* SpecReq: the SSE lines the client has been sent
    dp_rows,    \* SpecDep: the model_deployments rows, NULL where none exists
    dp_call,    \* SpecDep: the last call on the table and what it returned
    dp_ops,     \* SpecDep: writes to the table so far
    dp_fallback, \* SpecDep: settings.routing.fallback_enabled
    ak_keys,    \* SpecAuth: the api_keys rows, NULL where none exists
    ak_call,    \* SpecAuth: the last call and what it returned
    ak_ops,     \* SpecAuth: writes to the table so far
    ak_master,  \* SpecAuth: settings.auth.master_api_key, NULL when empty
    wr_weights, \* SpecWrr: the weight of each deployment of rank's argument
    wr_remaining, \* SpecWrr: rank's local list `remaining`
    wr_ordered, \* SpecWrr: rank's local list `ordered`
    wr_pc,      \* SpecWrr: where the call of rank stands
    hs_in,      \* SpecHash: two (model, messages) inputs
    hs_kv,      \* SpecHash: what Tier 1 holds: a key and whose payload it is
    hs_got,     \* SpecHash: what the get returned
    hs_pc       \* SpecHash: where the set / get pair stands

varsCB == <<cb_dep, cb_call, cb_fails>>
varsRL == <<rl_zset, rl_expire_at, rl_call, rl_admitted>>
varsDB == <<key, request_logs, db_dep, key_lock, dep_lock>>
varsPipe == <<varsDB, rpm_zset, cache, rq>>
varsCache == <<exact, cache_entries, cache_call, cache_stored, cache_promoted,
              cache_ops>>
varsReq == <<rr, rr_tx, rr_db, rr_trace, rr_body>>
varsDep == <<dp_rows, dp_call, dp_ops, dp_fallback>>
varsAuth == <<ak_keys, ak_call, ak_ops, ak_master>>
varsWrr == <<wr_weights, wr_remaining, wr_ordered, wr_pc>>
varsHash == <<hs_in, hs_kv, hs_got, hs_pc>>
varsFn == <<varsWrr, varsHash>>
varsMore == <<varsCache, varsReq, varsDep, varsAuth, varsFn>>
vars == <<now, varsCB, varsRL, varsPipe, varsMore>>

(***************************************************************************)
(* Bounds of the model.                                                    *)
(***************************************************************************)
MaxNow == 240
TickSeconds == 30
MaxFailures == 5
NumWorkers == 2
RLimit == 2
MaxIncrement == 2
MaxAdmitted == 5
RLMaxNow == 90
NumRequests == 2
NumDeployments == 2
MaxTokens == 2
MaxChunks == 1
PipeMaxNow == 30
CacheTickSeconds == 2400
CacheMaxNow == 4800
MaxCacheOps == 3
NearDistance == 3
FarDistance == 60
MaxLines == 2
NumDepRows == 4
MaxPriority == 2
MaxDepOps == 4
DepMaxNow == 60
MaxAuthOps == 4
AuthMaxNow == 60
MaxWeight == 2
MaxRanked == 3

(***************************************************************************)
(* Program constants.                                                      *)
(***************************************************************************)
failure_threshold == 3
cooldown_seconds == 60
window_seconds == 60
max_retries == 2
default_ttl_seconds == 3600
exact_match_ttl_seconds == 3600
semantic_threshold == 95
max_input_length == 2

\* Python's None for an optional column; a present value t is <<t>>.
NULL == <<>>
Some(t) == <<t>>

(***************************************************************************)
(* Circuit breaker (core/router/health.py).  A deployment's health fields  *)
(* are [is_healthy, cooldown_until, consecutive_failures].                 *)
(***************************************************************************)
NewDeployment ==
    [is_healthy |-> TRUE, cooldown_until |-> NULL, consecutive_failures |-> 0]

\* get_state that keeps the circuit open at the instant the cooldown ends
\* (>= for >).
get_state_open_at_expiry(d, t) ==
    IF d.is_healthy THEN "closed"
    ELSE IF d.cooldown_until # NULL /\ d.cooldown_until[1] >= t THEN "open"
    ELSE "half_open"

get_state(d, t) ==
    IF d.is_healthy THEN "closed"
    ELSE IF d.cooldown_until # NULL /\ d.cooldown_until[1] > t THEN "open"
    ELSE "half_open"

is_available(d, t) == get_state(d, t) \in {"closed", "half_open"}

\* record_success that forgets to clear the cooldown.
record_success_keeps_cooldown(d) ==
    IF d.consecutive_failures > 0 \/ ~d.is_healthy
    THEN [d EXCEPT !.consecutive_failures = 0, !.is_healthy = TRUE]
    ELSE d

record_success(d) ==
    IF d.consecutive_failures > 0 \/ ~d.is_healthy
    THEN [d EXCEPT !.consecutive_failures = 0,
                   !.is_healthy = TRUE,
                   !.cooldown_until = NULL]
    ELSE d

\* record_failure that opens one failure too late (> for >=).
record_failure_late(d, t) ==
    LET d1 == [d EXCEPT !.consecutive_failures = @ + 1] IN
    IF get_state(d1, t) = "half_open"
    THEN [d1 EXCEPT !.is_healthy = FALSE,
                    !.cooldown_until = Some(t + 2 * cooldown_seconds)]
    ELSE IF d1.consecutive_failures > failure_threshold
    THEN [d1 EXCEPT !.is_healthy = FALSE,
                    !.cooldown_until = Some(t + cooldown_seconds)]
    ELSE d1

\* record_failure that re-opens a half-open circuit with the plain cooldown.
record_failure_nobackoff(d, t) ==
    LET d1 == [d EXCEPT !.consecutive_failures = @ + 1] IN
    IF get_state(d1, t) = "half_open"
    THEN [d1 EXCEPT !.is_healthy = FALSE,
                    !.cooldown_until = Some(t + cooldown_seconds)]
    ELSE IF d1.consecutive_failures >= failure_threshold
    THEN [d1 EXCEPT !.is_healthy = FALSE,
                    !.cooldown_until = Some(t + cooldown_seconds)]
    ELSE d1

record_failure(d, t) ==
    LET d1 == [d EXCEPT !.consecutive_failures = @ + 1] IN
    IF get_state(d1, t) = "half_open"
    THEN [d1 EXCEPT !.is_healthy = FALSE,
                    !.cooldown_until = Some(t + 2 * cooldown_seconds)]
    ELSE IF d1.consecutive_failures >= failure_threshold
    THEN [d1 EXCEPT !.is_healthy = FALSE,
                    !.cooldown_until = Some(t + cooldown_seconds)]
    ELSE d1

(***************************************************************************)
(* Rate limiter (core/auth/rate_limiter.py).  The sorted set is a bag of   *)
(* scores: every ZADD member name is distinct, so only the scores count.   *)
(***************************************************************************)
Workers == 1 .. NumWorkers

ZCARD(z) == BagCardinality(z)

\* ZREMRANGEBYSCORE key 0 max: drop the entries with score <= max.
ZREMRANGEBYSCORE(z, max) ==
    [s \in {x \in DOMAIN z : x > max} |-> z[s]]

\* The smallest score (ZRANGE key 0 0 WITHSCORES); z is not empty.
ZOldest(z) == CHOOSE s \in DOMAIN z : \A x \in DOMAIN z : s <= x

\* increment distinct members with score t
ZADD(z, t, increment) == z (+) [s \in {t} |-> increment]

\* RATE_LIMIT_SCRIPT: one atomic run on the server.  Returns the new set and
\* the reply {rejected, current, reset}.
RATE_LIMIT_SCRIPT(z, limit, window, t, increment) ==
    LET live == ZREMRANGEBYSCORE(z, t - window)
        current == ZCARD(live)
    IN  IF current + increment <= limit
        THEN [zset |-> ZADD(live, t, increment), added |-> TRUE,
              rejected |-> 0, current |-> current + increment, reset |-> window]
        ELSE [zset |-> live, added |-> FALSE,
              rejected |-> 1, current |-> current,
              reset |-> IF DOMAIN live # {}
                        THEN ZOldest(live) + window - t ELSE 0]

Max(a, b) == IF a >= b THEN a ELSE b

\* RateLimiter.check's return value from the script's reply.
RateLimitResult(reply, limit) ==
    [allowed |-> reply.rejected = 0,
     limit |-> limit,
     remaining |-> limit - reply.current,
     reset_seconds |-> Max(0, reply.reset)]

\* The fail-open result of RateLimiter.check when the KV is unreachable.
FailOpenResult(limit) ==
    [allowed |-> TRUE, limit |-> limit, remaining |-> limit, reset_seconds |-> 0]

NoResult == [allowed |-> FALSE, limit |-> 0, remaining |-> 0, reset_seconds |-> 0]

\* RateLimitResult.to_headers("requests"); NoHeaders is the empty dict that
\* _check_rate_limits starts from.
NoHeaders == [h \in {} |-> 0]
to_headers(result) ==
    [h \in {"x-ratelimit-limit-requests", "x-ratelimit-remaining-requests",
            "x-ratelimit-reset-requests"} |->
        CASE h = "x-ratelimit-limit-requests" -> result.limit
          [] h = "x-ratelimit-remaining-requests" -> Max(0, result.remaining)
          [] OTHER -> result.reset_seconds]

IdleRL ==
    /\ rl_zset = EmptyBag
    /\ rl_expire_at = NULL
    /\ rl_call = [w \in Workers |->
                    [pc |-> "idle", now |-> 0, increment |-> 0, result |-> NoResult,
                     error |-> "none", raised |-> FALSE, headers |-> NoHeaders]]
    /\ rl_admitted = EmptyBag

(***************************************************************************)
(* SpecCB: the breaker called on one deployment object, as the unit tests  *)
(* of tests/unit/core/test_circuit_breaker.py do, while time passes.       *)
(***************************************************************************)
(***************************************************************************)
(* The request pipeline's data (schemas/completion.py, api/deps.py,        *)
(* models/).  Money is counted in units of the cost quantum.               *)
(***************************************************************************)
Requests == 1 .. NumRequests
Deployments == 1 .. NumDeployments

Models == {"gpt-5", "gpt-x"}

\* calculate_cost with a pricing table of one unit per prompt token and two
\* per completion token.
calculate_cost(usage) == usage.prompt_tokens + 2 * usage.completion_tokens

NoUsage == [prompt_tokens |-> 0, completion_tokens |-> 0]

\* The upstream's usage report for a completion of c tokens.
Usage(c) == [prompt_tokens |-> 1, completion_tokens |-> c]

\* The principal's budget: what the smallest completion costs.
BudgetLimit == calculate_cost(Usage(1))

\* The principal's api_keys row: its limits are fixed, its spend grows.
KeyRow(spend, rpm) ==
    [spend_usd |-> spend, budget_limit_usd |-> Some(BudgetLimit),
     allowed_models |-> Some({"gpt-5"}), rate_limit_rpm |-> rpm]

\* Every deployment serves model gpt-5; deployment d has priority d.
DeploymentModel == "gpt-5"
priority(d) == d

\* A deployment whose circuit opened at the threshold and that has one tick
\* of its cooldown left at time 0.
OpenedDeployment ==
    [is_healthy |-> FALSE, cooldown_until |-> Some(TickSeconds),
     consecutive_failures |-> failure_threshold]

\* A CLOSED deployment for which one failure has been recorded and committed.
FailedOnceDeployment == record_failure(NewDeployment, 0)

\* ConduitError.status_code of each error kind.
status_code(kind) ==
    CASE kind = "access_denied" -> 403
      [] kind = "budget_exceeded" -> 429
      [] kind = "rate_limited" -> 429
      [] kind = "validation_error" -> 400
      [] kind = "provider_error" -> 502
      [] kind = "no_healthy_deployment" -> 503
      [] OTHER -> 200

\* A request task before it arrives.
IdleRequest ==
    [pc |-> "idle", stream |-> FALSE, model |-> DeploymentModel,
     api_key |-> KeyRow(0, NULL), key_dirty |-> FALSE,
     loaded |-> [d \in Deployments |-> NewDeployment],
     deps |-> [d \in Deployments |-> NewDeployment],
     chain |-> <<>>, half_open |-> {}, idx |-> 1, sent |-> <<>>, recorded |-> <<>>,
     last_error |-> NULL, used |-> NULL, chunks_sent |-> 0,
     usage |-> NoUsage, cost |-> 0, new_logs |-> <<>>,
     outcome |-> "none", error |-> NULL]

IdlePipe ==
    /\ key = KeyRow(0, NULL)
    /\ request_logs = <<>>
    /\ db_dep = [d \in Deployments |-> NewDeployment]
    /\ key_lock = NULL
    /\ dep_lock = [d \in Deployments |-> NULL]
    /\ rpm_zset = EmptyBag
    /\ cache = {}
    /\ rq = [r \in Requests |-> IdleRequest]

(***************************************************************************)
(* The two-tier response cache (core/cache).  A string is the sequence of  *)
(* its pieces, so that joining and prefixing are concatenations.           *)
(***************************************************************************)
Msg(role, content) == [role |-> role, content |-> content]

CacheMessages ==
    { <<Msg("user", <<"hi">>)>>,
      <<Msg("system", <<"be brief">>), Msg("user", <<"hi">>)>>,
      <<Msg("user", <<"hello">>)>>,
      <<Msg("user", <<"bye">>)>>,
      <<Msg("system", <<"be brief">>)>> }

Payloads == {"A", "B"}

\* "\n".join(parts)
RECURSIVE Join(_)
Join(parts) ==
    IF parts = <<>> THEN <<>>
    ELSE IF Len(parts) = 1 THEN Head(parts)
    ELSE Head(parts) \o <<"\n">> \o Join(Tail(parts))

\* the parts list: f"{role}: {content}" of every message that is not a
\* system message
RECURSIVE Parts(_)
Parts(messages) ==
    IF messages = <<>> THEN <<>>
    ELSE IF Head(messages).role = "system" THEN Parts(Tail(messages))
    ELSE <<(<<Head(messages).role, ": ">> \o Head(messages).content)>>
             \o Parts(Tail(messages))

normalize_prompt_for_embedding(messages) == Join(Parts(messages))

\* not prompt_text.strip()
Blank(prompt_text) == \A i \in 1..Len(prompt_text) : prompt_text[i] \in {" ", "\n"}

\* SHA-256 of f"{model}::{prompt_text}": one digest per raw string.  The
\* model name is the sequence of its pieces.
compute_hash_text(prompt_text, model_text) ==
    <<"sha256", model_text \o <<"::">> \o prompt_text>>

\* compute_hash for a model name of one piece
compute_hash(prompt_text, model) == compute_hash_text(prompt_text, <<model>>)

\* the calls made on the cache: every prompt for one model, one prompt for
\* the other
CacheRequests ==
    { <<m, DeploymentModel>> : m \in CacheMessages }
        \cup { <<(<<Msg("user", <<"hi">>)>>), "gpt-x">> }

CacheKeys ==
    { compute_hash(normalize_prompt_for_embedding(c[1]), c[2]) : c \in CacheRequests }

json_dumps(payload) == <<"json", payload>>
json_loads(data) == data[2]

\* redis GET of a key written by SETEX: gone once its time to live is over
ExactGet(kv, prompt_hash) ==
    IF kv[prompt_hash] = NULL THEN NULL
    ELSE Some(json_loads(kv[prompt_hash][1].data))

\* redis SETEX key ttl data
ExactSet(kv, prompt_hash, payload, ttl, t) ==
    [kv EXCEPT ![prompt_hash] =
        Some([data |-> json_dumps(payload), expires_at |-> t + ttl])]

\* the KV drops every key whose time to live is over
ExpireKeys(kv, t) ==
    [k \in DOMAIN kv |->
        IF kv[k] # NULL /\ kv[k][1].expires_at <= t THEN NULL ELSE kv[k]]

\* the outcome of the KV commands of one manager call: served, refused
\* (redis ConnectionError) or timed out (redis TimeoutError)
KVOutcomes == {"ok", "connection_error", "timeout"}
\* the outcome of the semantic tier's statements of one manager call
SemOutcomes == {"ok", "error"}

\* the cosine distance of the embeddings of two prompt texts, in hundredths
PromptText(word) == normalize_prompt_for_embedding(<<Msg("user", <<word>>)>>)
cosine_distance(a, b) ==
    IF a = b THEN 0
    ELSE IF {a, b} = {PromptText("hi"), PromptText("hello")} THEN NearDistance
    ELSE FarDistance

max_distance == 100 - semantic_threshold

\* the rows the pgvector query keeps: same model, not expired, near enough
Matches(rows, prompt_text, model, t) ==
    { i \in 1..Len(rows) :
        /\ rows[i].model = model
        /\ rows[i].expires_at > t
        /\ cosine_distance(rows[i].prompt_text, prompt_text) < max_distance }

\* ORDER BY distance ASC LIMIT 1: any of the rows at the least distance
Nearest(rows, prompt_text, model, t) ==
    { i \in Matches(rows, prompt_text, model, t) :
        \A j \in Matches(rows, prompt_text, model, t) :
            cosine_distance(rows[i].prompt_text, prompt_text)
                <= cosine_distance(rows[j].prompt_text, prompt_text) }

CacheEntry(prompt_text, model, payload, ttl, t) ==
    [model |-> model, prompt_text |-> prompt_text,
     prompt_hash |-> compute_hash(prompt_text, model),
     response_payload |-> payload, hit_count |-> 0, expires_at |-> t + ttl]

MissResult == [hit |-> FALSE, response_payload |-> NULL, source |-> "none"]
HitResult(payload, source) ==
    [hit |-> TRUE, response_payload |-> Some(payload), source |-> source]

NoCacheCall ==
    [op |-> "none", messages |-> <<>>, key |-> NULL,
     result |-> MissResult, entry |-> 0, raised |-> FALSE]

IdleCache ==
    /\ exact = [k \in CacheKeys |-> NULL]
    /\ cache_entries = <<>>
    /\ cache_call = NoCacheCall
    /\ cache_stored = [k \in CacheKeys |-> NULL]
    /\ cache_promoted = [k \in CacheKeys |-> NULL]
    /\ cache_ops = 0

(***************************************************************************)
(* One chat-completion request followed statement by statement             *)
(* (schemas/completion.py), with the guardrail engine, the cache calls,    *)
(* the upstream adapters and the client of a streamed body.                *)
(***************************************************************************)
PIIWord == "john@example.com"
RedactedWord == "[EMAIL_REDACTED]"
InjectionWord == "ignore previous instructions"
HighWord == "flagged-high"
LowWord == "flagged-low"

ReqMessages ==
    { <<Msg("user", <<"hi">>)>>,
      <<Msg("user", <<"mail", PIIWord>>)>>,
      <<Msg("system", <<PIIWord>>), Msg("user", <<LowWord>>)>>,
      <<Msg("user", <<InjectionWord>>)>>,
      <<Msg("user", <<HighWord>>)>>,
      <<Msg("user", <<LowWord, "hi">>)>>,
      <<Msg("user", <<"hi", "hi", "hi">>)>> }

\* some message's content has the word
Contains(messages, word) ==
    \E i \in 1..Len(messages) :
        \E j \in 1..Len(messages[i].content) : messages[i].content[j] = word

\* sum(len(str(m.get("content", ""))) for m in messages)
RECURSIVE total_length(_)
total_length(messages) ==
    IF messages = <<>> THEN 0
    ELSE Len(Head(messages).content) + total_length(Tail(messages))

\* pii.redact_messages: every match in a content is rewritten as
\* [<TYPE>_REDACTED]
redact_messages(messages) ==
    [i \in 1..Len(messages) |->
        [messages[i] EXCEPT !.content =
            [j \in 1..Len(@) |-> IF @[j] = PIIWord THEN RedactedWord ELSE @[j]]]]

\* The guardrail settings and the active pre-stage rules of the database:
\* the default PII action, a PII rule that overrides it, a custom word-list
\* rule on the word "hi".
GuardrailConfig(enabled, default_action, pii_rule, custom_rule) ==
    [enabled |-> enabled, default_action |-> default_action,
     pii_rule |-> pii_rule, custom_rule |-> custom_rule]

GuardrailConfigs ==
    { GuardrailConfig(FALSE, "redact", NULL, NULL),
      GuardrailConfig(TRUE, "redact", NULL, NULL),
      GuardrailConfig(TRUE, "block", NULL, NULL),
      GuardrailConfig(TRUE, "warn", NULL, NULL),
      GuardrailConfig(TRUE, "redact", Some("log"), NULL),
      GuardrailConfig(TRUE, "warn", Some("redact"), Some("warn")),
      GuardrailConfig(TRUE, "redact", NULL, Some("log")),
      GuardrailConfig(TRUE, "redact", NULL, Some("block")) }

GuardrailViolation(rule_name, action) == [rule_name |-> rule_name, action |-> action]

\* any(v.action == "block" for v in violations)
has_blocking_first(violations) ==
    violations # <<>> /\ violations[1].action = "block"

has_blocking(violations) ==
    \E i \in 1..Len(violations) : violations[i].action = "block"

\* GuardrailEngine.run_pre_request(messages, model) of an enabled engine
run_pre_request(messages, cfg) ==
    LET pii_matches == Contains(messages, PIIWord)
        pii_action == IF cfg.pii_rule # NULL THEN cfg.pii_rule[1]
                      ELSE cfg.default_action
        pii_redacted == pii_matches /\ pii_action = "redact"
        modified_msgs == IF pii_redacted THEN redact_messages(messages) ELSE messages
        v_length == IF total_length(messages) > max_input_length
                    THEN <<GuardrailViolation("max_input_length", "block")>>
                    ELSE <<>>
        v_pii == IF pii_matches /\ pii_action = "block"
                 THEN <<GuardrailViolation("pii_detection", "block")>>
                 ELSE <<>>
        v_injection == IF Contains(modified_msgs, InjectionWord)
                       THEN <<GuardrailViolation("injection_detection", "block")>>
                       ELSE <<>>
        v_filter == IF Contains(modified_msgs, HighWord)
                    THEN <<GuardrailViolation("content_filter", "block")>>
                    ELSE IF Contains(modified_msgs, LowWord)
                    THEN <<GuardrailViolation("content_filter", "warn")>>
                    ELSE <<>>
        v_custom == IF cfg.custom_rule # NULL /\ Contains(modified_msgs, "hi")
                    THEN <<GuardrailViolation("word_list", cfg.custom_rule[1])>>
                    ELSE <<>>
        violations == v_length \o v_pii \o v_injection \o v_filter \o v_custom
    IN  [raised |-> has_blocking(violations),
         passed |-> ~has_blocking(violations),
         violations |-> violations,
         messages_modified |-> pii_redacted,
         modified_messages |-> IF pii_redacted THEN Some(modified_msgs) ELSE NULL]

NoGuardrailResult ==
    [raised |-> FALSE, passed |-> TRUE, violations |-> <<>>,
     messages_modified |-> FALSE, modified_messages |-> NULL]

\* The deployments of the request's model and the adapter each one uses.
ReqDeployments == 1..3
provider_of(d) == IF d = 1 THEN "anthropic" ELSE IF d = 2 THEN "google" ELSE "openai"
\* the fallback chains RouterEngine.route can return
Chains == { <<1>>, <<3>>, <<1, 2>>, <<1, 3>>, <<3, 1>> }

\* The request's api_keys row.
ReqKey(spend, rpm, tpm) == [rate_limit_tpm |-> tpm] @@ KeyRow(spend, rpm)
ReqKeys ==
    { ReqKey(0, NULL, NULL), ReqKey(0, Some(1), Some(MaxTokens)),
      ReqKey(BudgetLimit, NULL, NULL),
      [ReqKey(BudgetLimit, NULL, NULL) EXCEPT !.budget_limit_usd = NULL] }

\* One step of the request, as the trace records it.
Step(name, d, messages) == [step |-> name, d |-> d, messages |-> messages]

\* One SSE line of a streamed body and the deployment it came from.
Line(kind, d) == [kind |-> kind, d |-> d]
SSE_DONE == Line("done", 0)

StreamAccumulator == [prompt_tokens |-> 0, completion_tokens |-> 0, chunks_sent |-> 0]

\* The request's AsyncSession: its transaction, the api_key object's spend,
\* whether the spend UPDATE is flushed, the added log rows, the deployment
\* objects.
NewSession(spend) ==
    [state |-> "active", spend_usd |-> spend, flushed |-> FALSE, new_logs |-> <<>>,
     deps |-> [d \in ReqDeployments |-> NewDeployment]]

IdleRequestRun ==
    [pc |-> "idle", stream |-> FALSE, model |-> DeploymentModel,
     cache_enabled |-> FALSE, cfg |-> GuardrailConfig(FALSE, "redact", NULL, NULL),
     api_key |-> ReqKey(0, NULL, NULL), original |-> <<>>,
     messages |-> <<>>, messages_dicts |-> <<>>, gr |-> NoGuardrailResult,
     chain |-> <<>>, idx |-> 1, accumulator |-> StreamAccumulator,
     usage |-> NoUsage, cost |-> 0, used |-> 0, last_error |-> 0,
     cache_failure |-> "none", guardrail_failure |-> "none",
     cancelled |-> FALSE, rpm_before |-> 0,
     tpm_before |-> 0,
     outcome |-> "none"]

IdleReq ==
    /\ rr = IdleRequestRun
    /\ rr_tx = NewSession(0)
    /\ rr_db = [spend_usd |-> 0, request_logs |-> <<>>, rpm |-> 0, tpm |-> 0,
               deps |-> [d \in ReqDeployments |-> NewDeployment]]
    /\ rr_trace = <<>>
    /\ rr_body = <<>>

(***************************************************************************)
(* The model_deployments table (models/deployment.py) as the router, the   *)
(* circuit breaker and the admin operations see it: row d is NULL until it *)
(* is created, and then holds the routing columns and the health columns.  *)
(***************************************************************************)
DepIds == 1..NumDepRows
Priorities == 1..MaxPriority

\* ModelDeployment(...) as create_deployment builds it: column defaults for
\* is_active and the health fields.
DeploymentRow(model_name, prio) ==
    [model_name |-> model_name, priority |-> prio, is_active |-> TRUE,
     is_healthy |-> TRUE, cooldown_until |-> NULL, consecutive_failures |-> 0]

\* The values a deployment object's health fields can take.
DeploymentObjects ==
    { [is_healthy |-> h, cooldown_until |-> c, consecutive_failures |-> 0] :
        h \in BOOLEAN, c \in {NULL} \cup {Some(t) : t \in {0, TickSeconds, 2 * TickSeconds}} }

\* The model names the create requests for row d carry: the last row is
\* created for either model, the others for the first.
CreatedModels(d) == IF d = NumDepRows THEN Models ELSE {DeploymentModel}

NoDepCall ==
    [op |-> "none", model |-> "", arg |-> NewDeployment, at |-> 0,
     raised |-> FALSE, chain |-> <<>>, state |-> "none", available |-> FALSE]

IdleDep ==
    /\ dp_rows = [d \in DepIds |-> NULL]
    /\ dp_call = NoDepCall
    /\ dp_ops = 0
    /\ dp_fallback = TRUE

(***************************************************************************)
(* Authentication (api/deps.py) over the api_keys table: row k is NULL     *)
(* until the key is created and then holds key_hash, is_active and         *)
(* expires_at.  A raw key is a name; its SHA-256 digest is the tagged name.*)
(***************************************************************************)
RawKeys == {"cnd_sk_1", "cnd_sk_2"}
MasterSecret == "master-secret"
Bearers == {NULL} \cup {Some(b) : b \in RawKeys \cup {MasterSecret, "cnd_sk_unknown"}}

hash_api_key(raw_key) == <<"sha256", raw_key>>

NoAuthCall ==
    [op |-> "none", bearer |-> NULL, at |-> 0, authenticated |-> FALSE,
     status_code |-> 0, principal |-> NULL, handler_entered |-> FALSE]

IdleAuth ==
    /\ ak_keys = [k \in RawKeys |-> NULL]
    /\ ak_call = NoAuthCall
    /\ ak_ops = 0
    /\ ak_master = NULL

IdleWrr ==
    /\ wr_weights = <<>>
    /\ wr_remaining = <<>>
    /\ wr_ordered = <<>>
    /\ wr_pc = "idle"

IdleHash ==
    /\ hs_in = <<>>
    /\ hs_kv = NULL
    /\ hs_got = NULL
    /\ hs_pc = "idle"

IdleFn == IdleWrr /\ IdleHash

IdleMore == IdleCache /\ IdleReq /\ IdleDep /\ IdleAuth /\ IdleFn

IdleCB ==
    /\ cb_dep = NewDeployment
    /\ cb_call = [op |-> "none", before |-> NewDeployment, at |-> 0]
    /\ cb_fails = 0

InitCB ==
    /\ now = 0
    /\ IdleMore
    /\ IdleRL
    /\ IdlePipe
    /\ cb_dep = NewDeployment
    /\ cb_call = [op |-> "none", before |-> NewDeployment, at |-> 0]
    /\ cb_fails = 0

CBRecordFailure ==
    /\ cb_fails < MaxFailures
    /\ cb_dep' = record_failure(cb_dep, now)
    /\ cb_call' = [op |-> "record_failure", before |-> cb_dep, at |-> now]
    /\ cb_fails' = cb_fails + 1
    /\ UNCHANGED <<varsMore, now, varsRL, varsPipe>>

CBRecordSuccess ==
    /\ cb_dep' = record_success(cb_dep)
    /\ cb_call' = [op |-> "record_success", before |-> cb_dep, at |-> now]
    /\ cb_fails' = 0
    /\ UNCHANGED <<varsMore, now, varsRL, varsPipe>>

Tick ==
    /\ now + TickSeconds <= MaxNow
    /\ now' = now + TickSeconds
    /\ UNCHANGED <<varsMore, varsCB, varsRL, varsPipe>>

NextCB == CBRecordFailure \/ CBRecordSuccess \/ Tick

SpecCB == InitCB /\ [][NextCB]_vars

(***************************************************************************)
(* SpecRL: workers call RateLimiter.check(identifier, RLimit,              *)
(* window_seconds, increment) on one identifier.  check reads the clock    *)
(* (line 115), then awaits the script load and the EVALSHA round trip      *)
(* (lines 118-121): the script runs on the server a moment later, with the *)
(* `now` the caller read, and in the order the server receives the calls.  *)
(***************************************************************************)
InitRL ==
    /\ now = 0
    /\ IdleMore
    /\ IdleCB
    /\ IdleRL
    /\ IdlePipe

\* check, up to its first await: now = time.time()
RLCheckBegin(w) ==
    /\ rl_call[w].pc = "idle"
    /\ BagCardinality(rl_admitted) < MaxAdmitted
    /\ \E inc \in 1 .. MaxIncrement :
         rl_call' = [rl_call EXCEPT ![w] =
                        [pc |-> "evalsha", now |-> now, increment |-> inc,
                         result |-> NoResult, error |-> "none",
                         raised |-> FALSE, headers |-> NoHeaders]]
    /\ UNCHANGED <<varsMore, now, varsCB, varsPipe, rl_zset, rl_expire_at, rl_admitted>>

\* The server runs the script; check returns the RateLimitResult.
RLCheckScript(w) ==
    /\ rl_call[w].pc \in {"evalsha", "retry"}
    /\ LET c == rl_call[w]
           reply == RATE_LIMIT_SCRIPT(rl_zset, RLimit, window_seconds,
                                      c.now, c.increment)
       IN /\ rl_zset' = reply.zset
          /\ rl_expire_at' = IF reply.added THEN Some(now + window_seconds + 1)
                             ELSE rl_expire_at
          /\ rl_admitted' = IF reply.added
                            THEN ZADD(rl_admitted, c.now, c.increment)
                            ELSE rl_admitted
          /\ rl_call' = [rl_call EXCEPT
                ![w].pc = "idle",
                ![w].result = RateLimitResult(reply, RLimit),
                ![w].headers = to_headers(RateLimitResult(reply, RLimit))]
    /\ UNCHANGED <<varsMore, now, varsCB, varsPipe>>

\* aioredis.ConnectionError: check fails open and leaves the KV untouched.
RLCheckConnectionError(w) ==
    /\ rl_call[w].pc = "evalsha"
    /\ rl_call' = [rl_call EXCEPT ![w].pc = "idle",
                                  ![w].result = FailOpenResult(RLimit),
                                  ![w].error = "connection_error",
                                  ![w].headers = to_headers(FailOpenResult(RLimit))]
    /\ UNCHANGED <<varsMore, now, varsCB, varsPipe, rl_zset, rl_expire_at, rl_admitted>>

\* aioredis.ResponseError (the script was flushed from the server): check
\* forgets the sha, reloads the script and calls it once more
RLCheckResponseError(w) ==
    /\ rl_call[w].pc = "evalsha"
    /\ rl_call' = [rl_call EXCEPT ![w].pc = "retry"]
    /\ UNCHANGED <<varsMore, now, varsCB, varsPipe, rl_zset, rl_expire_at, rl_admitted>>

\* aioredis.ConnectionError on the reload or on the second call: the except
\* clauses belong to the first try, so the exception leaves check and
\* _check_rate_limits, and the request ends with it
RLRetryConnectionError(w) ==
    /\ rl_call[w].pc = "retry"
    /\ rl_call' = [rl_call EXCEPT ![w].pc = "idle",
                                  ![w].error = "connection_error",
                                  ![w].raised = TRUE]
    /\ UNCHANGED <<varsMore, now, varsCB, varsPipe, rl_zset, rl_expire_at, rl_admitted>>

\* The KV drops the key window + 1 seconds after the last admission.
RLKeyExpire ==
    /\ rl_expire_at # NULL
    /\ rl_expire_at[1] <= now
    /\ rl_zset' = EmptyBag
    /\ rl_expire_at' = NULL
    /\ UNCHANGED <<varsMore, now, varsCB, varsPipe, rl_call, rl_admitted>>

\* Time passes.  A call in flight is overtaken by at most one tick: the
\* round trip to the KV is short next to the window.
RLTick ==
    /\ now + TickSeconds <= RLMaxNow
    /\ \A w \in Workers : rl_call[w].pc \in {"evalsha", "retry"} => rl_call[w].now = now
    /\ Tick

NextRL ==
    \/ \E w \in Workers : RLCheckBegin(w)
    \/ \E w \in Workers : RLCheckScript(w)
    \/ \E w \in Workers : RLCheckConnectionError(w)
    \/ \E w \in Workers : RLCheckResponseError(w)
    \/ \E w \in Workers : RLRetryConnectionError(w)
    \/ RLKeyExpire
    \/ RLTick

SpecRL == InitRL /\ [][NextRL]_vars

\* The units admitted with a score in the window [t, t + window_seconds).
AdmittedInWindow(t) ==
    BagCardinality([s \in {x \in DOMAIN rl_admitted :
                              t <= x /\ x < t + window_seconds}
                    |-> rl_admitted[s]])

(***************************************************************************)
(* C1: whatever the interleaving of concurrent check calls, the units      *)
(* admitted with a score inside any window of window_seconds seconds       *)
(* never exceed the limit.                                                 *)
(***************************************************************************)
C1_WindowNeverOversubscribed ==
    \A t \in DOMAIN rl_admitted : AdmittedInWindow(t) <= RLimit

(***************************************************************************)
(* SpecPipe: concurrent POST /v1/chat/completions requests of one          *)
(* principal.  Each request runs in its own DB session (get_db_session):   *)
(* it works on the objects it loaded, flush sends its UPDATEs under the    *)
(* row's lock, and what it wrote is visible to the others from its commit. *)
(* The session is the request's for as long as the request runs, the body  *)
(* of a streamed response included.                                        *)
(***************************************************************************)
InitPipe ==
    /\ now = 0
    /\ IdleMore
    /\ IdleCB
    /\ IdleRL
    /\ key \in {KeyRow(0, NULL), KeyRow(0, Some(1))}
    /\ request_logs = <<>>
    /\ db_dep \in [Deployments -> {NewDeployment, FailedOnceDeployment,
                                    OpenedDeployment}]
    /\ key_lock = NULL
    /\ dep_lock = [d \in Deployments |-> NULL]
    /\ rpm_zset = EmptyBag
    /\ cache \in {{}, {DeploymentModel}}
    /\ rq = [r \in Requests |-> IdleRequest]

\* raise <kind>: the exception leaves the handler and reaches get_db_session.
Raise(r, kind) ==
    rq' = [rq EXCEPT ![r].pc = "rollback", ![r].outcome = kind]

\* The row of request_logs a request adds.
LogRow(r, provider, deployment, cost, cached) ==
    [request_id |-> r, api_key_id |-> "key", deployment_id |-> deployment,
     provider |-> provider, cost_usd |-> cost, status_code |-> 200,
     cached |-> cached]

\* PriorityStrategy.rank: ascending priority.
RECURSIVE rank(_)
rank(S) ==
    IF S = {} THEN <<>>
    ELSE LET d == CHOOSE x \in S : \A y \in S : priority(x) <= priority(y)
         IN  <<d>> \o rank(S \ {d})

Truncate(seq, n) == SubSeq(seq, 1, IF Len(seq) < n THEN Len(seq) ELSE n)

\* The UPDATE a flush sends for a deployment: the columns the session changed.
FlushedRow(row, loaded, obj) ==
    [is_healthy |-> IF obj.is_healthy # loaded.is_healthy
                    THEN obj.is_healthy ELSE row.is_healthy,
     cooldown_until |-> IF obj.cooldown_until # loaded.cooldown_until
                        THEN obj.cooldown_until ELSE row.cooldown_until,
     consecutive_failures |->
        IF obj.consecutive_failures # loaded.consecutive_failures
        THEN obj.consecutive_failures ELSE row.consecutive_failures]

\* flush of a changed deployment object: the UPDATE waits for the row lock.
CanFlush(r, d) == dep_lock[d] \in {NULL, Some(r)}

\* db.add left out.
add_skipped(logs, row) == logs

\* db.add(log_entry)
add(logs, row) == Append(logs, row)

\* A loop that retries the deployment that failed.
NextIndex_retry(idx) == idx

\* `for deployment in deployment_chain`: the loop's step.
NextIndex(idx) == idx + 1

\* A fallback loop that falls through to the post-processing after the last
\* failure.
AfterFailure_falls_through(last) == IF last THEN "spend" ELSE "send"

\* Where the fallback loop of create_completion goes after a failure: on to
\* the next deployment, or out of the handler with `raise last_error`.
AfterFailure(last) == IF last THEN "rollback" ELSE "send"

\* A loop that keeps the first error.
SetLastError_first(prev, d) == IF prev = NULL THEN Some(d) ELSE prev

\* `last_error = e`
SetLastError(prev, d) == Some(d)

\* get_api_key: the session loads the principal's row.
Authenticate(r) ==
    /\ rq[r].pc = "idle"
    /\ \E stream \in BOOLEAN, model \in Models :
         rq' = [rq EXCEPT ![r] = [IdleRequest EXCEPT !.pc = "access",
                                                     !.stream = stream,
                                                     !.model = model,
                                                     !.api_key = key]]
    /\ UNCHANGED <<varsMore, now, varsCB, varsRL, varsDB, rpm_zset, cache>>

\* check_model_access, check_budget
AccessCheck(r) ==
    /\ rq[r].pc = "access"
    /\ LET k == rq[r].api_key IN
       IF k.allowed_models # NULL /\ rq[r].model \notin k.allowed_models[1]
       THEN Raise(r, "access_denied")
       ELSE IF k.budget_limit_usd # NULL /\ k.spend_usd >= k.budget_limit_usd[1]
       THEN Raise(r, "budget_exceeded")
       ELSE rq' = [rq EXCEPT ![r].pc = "ratelimit"]
    /\ UNCHANGED <<varsMore, now, varsCB, varsRL, varsDB, rpm_zset, cache>>

\* _check_rate_limits: check_or_raise on rpm:key:<id>
CheckRateLimits(r) ==
    /\ rq[r].pc = "ratelimit"
    /\ LET k == rq[r].api_key IN
       IF k.rate_limit_rpm = NULL
       THEN /\ rq' = [rq EXCEPT ![r].pc = "guardrails"]
            /\ UNCHANGED rpm_zset
       ELSE LET reply == RATE_LIMIT_SCRIPT(rpm_zset, k.rate_limit_rpm[1],
                                           window_seconds, now, 1)
            IN /\ rpm_zset' = reply.zset
               /\ IF RateLimitResult(reply, k.rate_limit_rpm[1]).allowed
                  THEN rq' = [rq EXCEPT ![r].pc = "guardrails"]
                  ELSE Raise(r, "rate_limited")
    /\ UNCHANGED <<varsMore, now, varsCB, varsRL, varsDB, cache>>

\* _check_rate_limits when the KV is unreachable: check fails open.
CheckRateLimitsFailOpen(r) ==
    /\ rq[r].pc = "ratelimit"
    /\ rq[r].api_key.rate_limit_rpm # NULL
    /\ FailOpenResult(rq[r].api_key.rate_limit_rpm[1]).allowed
    /\ rq' = [rq EXCEPT ![r].pc = "guardrails"]
    /\ UNCHANGED <<varsMore, now, varsCB, varsRL, varsDB, rpm_zset, cache>>

\* run_pre_request: it returns, or raises ValidationError on a block.
PreGuardrails(r) ==
    /\ rq[r].pc = "guardrails"
    /\ \E blocked \in BOOLEAN :
         IF blocked THEN Raise(r, "validation_error")
         ELSE rq' = [rq EXCEPT ![r].pc = IF rq[r].stream THEN "route" ELSE "cache"]
    /\ UNCHANGED <<varsMore, now, varsCB, varsRL, varsDB, rpm_zset, cache>>

\* Step 4 of create_completion: on a hit, log the cached response and return.
CacheLookup(r) ==
    /\ rq[r].pc = "cache"
    /\ IF rq[r].model \in cache
       THEN rq' = [rq EXCEPT ![r].pc = "commit",
                             ![r].outcome = "cache_hit",
                             ![r].new_logs = add(@, LogRow(r, "cache", NULL, 0, TRUE))]
       ELSE rq' = [rq EXCEPT ![r].pc = "route"]
    /\ UNCHANGED <<varsMore, now, varsCB, varsRL, varsDB, rpm_zset, cache>>

\* RouterEngine.route
Route(r) ==
    /\ rq[r].pc = "route"
    /\ LET all == {d \in Deployments : DeploymentModel = rq[r].model}
           available == {d \in all : is_available(db_dep[d], now)}
       IN  IF all = {} \/ available = {}
           THEN Raise(r, "no_healthy_deployment")
           ELSE rq' = [rq EXCEPT ![r].pc = "send",
                                 ![r].loaded = db_dep,
                                 ![r].deps = db_dep,
                                 ![r].chain = Truncate(rank(available), max_retries + 1),
                                 ![r].half_open =
                                    {d \in available :
                                        get_state(db_dep[d], now) = "half_open"},
                                 ![r].idx = 1]
    /\ UNCHANGED <<varsMore, now, varsCB, varsRL, varsDB, rpm_zset, cache>>

\* The next deployment of the chain: adapter.send / adapter.stream is called.
Send(r) ==
    /\ rq[r].pc = "send"
    /\ rq' = [rq EXCEPT ![r].pc = IF rq[r].stream THEN "streaming" ELSE "await",
                        ![r].sent = Append(@, rq[r].chain[rq[r].idx])]
    /\ UNCHANGED <<varsMore, now, varsCB, varsRL, varsDB, rpm_zset, cache>>

\* adapter.send returned: record_success, flush, leave the loop.
SendOk(r) ==
    /\ rq[r].pc = "await"
    /\ LET d == rq[r].chain[rq[r].idx]
           obj == record_success(rq[r].deps[d])
       IN /\ obj # rq[r].deps[d] => CanFlush(r, d)
          /\ dep_lock' = IF obj # rq[r].deps[d]
                         THEN [dep_lock EXCEPT ![d] = Some(r)] ELSE dep_lock
          /\ \E c \in 1 .. MaxTokens :
               rq' = [rq EXCEPT ![r].pc = "spend",
                                ![r].deps[d] = obj,
                                ![r].recorded = Append(@, <<"success", d>>),
                                ![r].used = Some(d),
                                ![r].usage = Usage(c),
                                ![r].outcome = "ok"]
    /\ UNCHANGED <<varsMore, now, varsCB, varsRL, key, request_logs, db_dep, key_lock,
                   rpm_zset, cache>>

\* adapter.send raised ProviderError: record_failure, flush, try the next
\* deployment; after the last one raise last_error.
SendFail(r) ==
    /\ rq[r].pc = "await"
    /\ LET d == rq[r].chain[rq[r].idx]
           obj == record_failure(rq[r].deps[d], now)
           last == rq[r].idx = Len(rq[r].chain)
       IN /\ CanFlush(r, d)
          /\ dep_lock' = [dep_lock EXCEPT ![d] = Some(r)]
          /\ rq' = [rq EXCEPT ![r].pc = AfterFailure(last),
                              ![r].deps[d] = obj,
                              ![r].recorded = Append(@, <<"failure", d>>),
                              ![r].last_error = SetLastError(@, d),
                              ![r].idx = IF last THEN @ ELSE NextIndex(@),
                              ![r].outcome = IF last THEN "provider_error" ELSE @,
                              ![r].error = IF last THEN SetLastError(rq[r].last_error, d)
                                           ELSE @]
    /\ UNCHANGED <<varsMore, now, varsCB, varsRL, key, request_logs, db_dep, key_lock,
                   rpm_zset, cache>>

\* The stream delivered one more content chunk (accumulator.record_chunk).
StreamChunk(r) ==
    /\ rq[r].pc = "streaming"
    /\ rq[r].chunks_sent < MaxChunks
    /\ rq' = [rq EXCEPT ![r].chunks_sent = @ + 1]
    /\ UNCHANGED <<varsMore, now, varsCB, varsRL, varsDB, rpm_zset, cache>>

\* The upstream's stream ended: [DONE] is sent, record_success, leave the loop.
StreamClose(r) ==
    /\ rq[r].pc = "streaming"
    /\ LET d == rq[r].chain[rq[r].idx]
           obj == record_success(rq[r].deps[d])
       IN /\ obj # rq[r].deps[d] => CanFlush(r, d)
          /\ dep_lock' = IF obj # rq[r].deps[d]
                         THEN [dep_lock EXCEPT ![d] = Some(r)] ELSE dep_lock
          /\ \E c \in 1 .. MaxTokens :
               rq' = [rq EXCEPT ![r].pc = "spend",
                                ![r].deps[d] = obj,
                                ![r].recorded = Append(@, <<"success", d>>),
                                ![r].used = Some(d),
                                ![r].usage = Usage(c),
                                ![r].outcome = "stream_ok"]
    /\ UNCHANGED <<varsMore, now, varsCB, varsRL, key, request_logs, db_dep, key_lock,
                   rpm_zset, cache>>

\* The upstream's stream raised ProviderError.  Before the first chunk the
\* next deployment is tried, and after the last one the error event and
\* [DONE] end the response; after a chunk the stream is interrupted and the
\* request is accounted to this deployment.
StreamFail(r) ==
    /\ rq[r].pc = "streaming"
    /\ LET d == rq[r].chain[rq[r].idx]
           obj == record_failure(rq[r].deps[d], now)
           last == rq[r].idx = Len(rq[r].chain)
       IN /\ CanFlush(r, d)
          /\ dep_lock' = [dep_lock EXCEPT ![d] = Some(r)]
          /\ IF rq[r].chunks_sent = 0
             THEN rq' = [rq EXCEPT ![r].pc = IF last THEN "commit" ELSE "send",
                                   ![r].deps[d] = obj,
                                   ![r].recorded = Append(@, <<"failure", d>>),
                                   ![r].last_error = Some(d),
                                   ![r].idx = IF last THEN @ ELSE NextIndex(@),
                                   ![r].outcome = IF last THEN "provider_error" ELSE @,
                                   ![r].error = IF last THEN Some(d) ELSE @]
             ELSE \E c \in 1 .. MaxTokens :
                    rq' = [rq EXCEPT ![r].pc = "spend",
                                     ![r].deps[d] = obj,
                                     ![r].recorded = Append(@, <<"failure", d>>),
                                     ![r].used = Some(d),
                                     ![r].usage = Usage(c),
                                     ![r].outcome = "stream_interrupted"]
    /\ UNCHANGED <<varsMore, now, varsCB, varsRL, key, request_logs, db_dep, key_lock,
                   rpm_zset, cache>>

\* calculate_cost; api_key.spend_usd = api_key.spend_usd + cost; flush.  The
\* UPDATE carries the value computed from the loaded row and takes the row's
\* lock until the transaction ends.
SpendUpdate(r) ==
    /\ rq[r].pc = "spend"
    /\ key_lock \in {NULL, Some(r)}
    /\ key_lock' = Some(r)
    /\ LET cost == calculate_cost(rq[r].usage)
       IN  rq' = [rq EXCEPT ![r].pc = "log",
                            ![r].cost = cost,
                            ![r].api_key.spend_usd = @ + cost,
                            ![r].key_dirty = TRUE]
    /\ UNCHANGED <<varsMore, now, varsCB, varsRL, key, request_logs, db_dep, dep_lock,
                   rpm_zset, cache>>

\* cache_manager.store (non-streamed only), then the request's log row.
StoreAndLog(r) ==
    /\ rq[r].pc = "log"
    /\ cache' = IF rq[r].stream THEN cache ELSE cache \cup {rq[r].model}
    /\ rq' = [rq EXCEPT ![r].pc = "commit",
                        ![r].new_logs =
                            add(@, LogRow(r, "upstream", rq[r].used, rq[r].cost, FALSE))]
    /\ UNCHANGED <<varsMore, now, varsCB, varsRL, varsDB, rpm_zset>>

Release(lock, r) == IF lock = Some(r) THEN NULL ELSE lock

\* get_db_session after the handler returned: commit.
Commit(r) ==
    /\ rq[r].pc = "commit"
    /\ key' = IF rq[r].key_dirty
              THEN [key EXCEPT !.spend_usd = rq[r].api_key.spend_usd] ELSE key
    /\ request_logs' = request_logs \o rq[r].new_logs
    /\ db_dep' = [d \in Deployments |->
                    FlushedRow(db_dep[d], rq[r].loaded[d], rq[r].deps[d])]
    /\ key_lock' = Release(key_lock, r)
    /\ dep_lock' = [d \in Deployments |-> Release(dep_lock[d], r)]
    /\ rq' = [rq EXCEPT ![r].pc = "done"]
    /\ UNCHANGED <<varsMore, now, varsCB, varsRL, rpm_zset, cache>>

\* get_db_session after the handler raised: rollback, and the error response.
Rollback(r) ==
    /\ rq[r].pc = "rollback"
    /\ key_lock' = Release(key_lock, r)
    /\ dep_lock' = [d \in Deployments |-> Release(dep_lock[d], r)]
    /\ rq' = [rq EXCEPT ![r].pc = "done", ![r].new_logs = <<>>,
                        ![r].key_dirty = FALSE]
    /\ UNCHANGED <<varsMore, now, varsCB, varsRL, key, request_logs, db_dep, rpm_zset, cache>>

PipeTick ==
    /\ now + TickSeconds <= PipeMaxNow
    /\ Tick

NextPipe ==
    \/ \E r \in Requests : Authenticate(r)
    \/ \E r \in Requests : AccessCheck(r)
    \/ \E r \in Requests : CheckRateLimits(r)
    \/ \E r \in Requests : CheckRateLimitsFailOpen(r)
    \/ \E r \in Requests : PreGuardrails(r)
    \/ \E r \in Requests : CacheLookup(r)
    \/ \E r \in Requests : Route(r)
    \/ \E r \in Requests : Send(r)
    \/ \E r \in Requests : SendOk(r)
    \/ \E r \in Requests : SendFail(r)
    \/ \E r \in Requests : StreamChunk(r)
    \/ \E r \in Requests : StreamClose(r)
    \/ \E r \in Requests : StreamFail(r)
    \/ \E r \in Requests : SpendUpdate(r)
    \/ \E r \in Requests : StoreAndLog(r)
    \/ \E r \in Requests : Commit(r)
    \/ \E r \in Requests : Rollback(r)
    \/ PipeTick

SpecPipe == InitPipe /\ [][NextPipe]_vars

(***************************************************************************)
(* Vocabulary of the pipeline claims.                                      *)
(***************************************************************************)
Rejected == {"access_denied", "budget_exceeded", "rate_limited",
             "validation_error", "no_healthy_deployment", "provider_error"}
Accepted == {"cache_hit", "ok", "stream_ok", "stream_interrupted"}

Finished(r) == rq[r].pc = "done"
InFlight(r) == rq[r].pc \in {"await", "streaming"}

\* The persisted status-200 log rows of request r.
RowsOf(logs, r) ==
    Cardinality({i \in DOMAIN logs :
                    logs[i].request_id = r /\ logs[i].status_code = 200})

\* Sum of cost_usd over the principal's status-200 log rows.
RECURSIVE SumCost(_)
SumCost(logs) ==
    IF logs = <<>> THEN 0
    ELSE (IF Head(logs).status_code = 200 /\ Head(logs).api_key_id = "key"
          THEN Head(logs).cost_usd ELSE 0) + SumCost(Tail(logs))

IsPrefix(s, t) == Len(s) <= Len(t) /\ SubSeq(t, 1, Len(s)) = s

AllFailed(r) ==
    /\ rq[r].chain # <<>>
    /\ Len(rq[r].recorded) = Len(rq[r].chain)
    /\ \A i \in DOMAIN rq[r].recorded : rq[r].recorded[i][1] = "failure"

(***************************************************************************)
(* C2: for the non-master principal, under any interleaving of its         *)
(* concurrent requests, once every request has finished the persisted      *)
(* spend_usd equals the sum of cost_usd over the principal's status-200    *)
(* log rows.                                                               *)
(***************************************************************************)
C2_SpendEqualsLoggedCost ==
    (\A r \in Requests : rq[r].pc \in {"idle", "done"})
        => key.spend_usd = SumCost(request_logs)

(***************************************************************************)
(* C3: the step that ends a rejected request (access_denied,               *)
(* budget_exceeded, rate_limited, validation_error, no_healthy_deployment, *)
(* provider_error after every deployment failed) leaves the persisted      *)
(* spend as it was and leaves no status-200 log row of that request.       *)
(***************************************************************************)
C3_RejectedLeavesNoTrace ==
    [][\A r \in Requests :
          (~Finished(r) /\ rq'[r].pc = "done" /\ rq'[r].outcome \in Rejected)
              => /\ key'.spend_usd = key.spend_usd
                 /\ RowsOf(request_logs', r) = 0]_vars

C3_Witness ==
    \E r, q \in Requests :
        /\ Finished(r) /\ rq[r].outcome = "provider_error" /\ ~rq[r].stream
        /\ Finished(q) /\ rq[q].outcome = "ok"
        /\ key.spend_usd > 0
        /\ RowsOf(request_logs, r) = 0

C5_FallbackInOrder ==
    \A r \in Requests : ~rq[r].stream =>
        LET q == rq[r] IN
        /\ IsPrefix(q.sent, q.chain)
        /\ \A i, j \in DOMAIN q.chain : i < j => q.chain[i] # q.chain[j]
        /\ Len(q.recorded) = IF q.pc = "await" THEN Len(q.sent) - 1 ELSE Len(q.sent)
        /\ \A i \in DOMAIN q.recorded :
              /\ q.recorded[i][2] = q.sent[i]
              /\ IF q.recorded[i][1] = "failure"
                 THEN q.deps[q.sent[i]].consecutive_failures =
                        q.loaded[q.sent[i]].consecutive_failures + 1
                 ELSE /\ i = Len(q.sent)
                      /\ q.deps[q.sent[i]] = record_success(q.loaded[q.sent[i]])

C5_Witness ==
    \E r \in Requests :
        /\ ~rq[r].stream
        /\ Len(rq[r].chain) = 2
        /\ rq[r].sent = rq[r].chain
        /\ rq[r].recorded = <<<<"failure", rq[r].chain[1]>>, <<"success", rq[r].chain[2]>>>>

(***************************************************************************)
(* C6: when every deployment of the chain fails, a non-streaming request   *)
(* fails with the error of the last deployment attempted (status 502),     *)
(* after exactly one attempt per chain element.                            *)
(***************************************************************************)
C6_AllFailedRaisesLast ==
    \A r \in Requests : (~rq[r].stream /\ AllFailed(r)) =>
        /\ rq[r].sent = rq[r].chain
        /\ rq[r].outcome = "provider_error"
        /\ status_code(rq[r].outcome) = 502
        /\ rq[r].error = Some(rq[r].chain[Len(rq[r].chain)])
        /\ rq[r].pc \in {"rollback", "done"}

C6_Witness ==
    \E r \in Requests :
        /\ ~rq[r].stream /\ AllFailed(r) /\ Len(rq[r].chain) = 2
        /\ Finished(r)
        /\ rq[r].error = Some(rq[r].chain[2])

(***************************************************************************)
(* C10: for a HALF_OPEN deployment, under any interleaving of concurrent   *)
(* requests, at most one probe is in flight before the deployment's next   *)
(* state transition.                                                       *)
(***************************************************************************)
Probes(d) ==
    {r \in Requests :
        /\ InFlight(r)
        /\ rq[r].chain[rq[r].idx] = d
        /\ d \in rq[r].half_open
        /\ db_dep[d] = rq[r].loaded[d]}

C10_OneProbe == \A d \in Deployments : Cardinality(Probes(d)) <= 1

(***************************************************************************)
(* C7: from a CLOSED deployment with consecutive_failures = 0, after k     *)
(* record_failure calls with no success in between the deployment is still *)
(* CLOSED with consecutive_failures = k while k < failure_threshold; the   *)
(* failure that opens it is the failure_threshold-th one and sets          *)
(* cooldown_until = now + cooldown_seconds; once it is open no later       *)
(* failure is a CLOSED -> OPEN transition again.                           *)
(***************************************************************************)
C7_OpensOnceAtThreshold ==
    cb_call.op = "record_failure" =>
        IF cb_call.before.is_healthy
        THEN /\ cb_dep.consecutive_failures = cb_fails
             /\ IF cb_fails < failure_threshold
                THEN /\ cb_dep.is_healthy
                     /\ cb_dep.cooldown_until = NULL
                ELSE /\ cb_fails = failure_threshold
                     /\ ~cb_dep.is_healthy
                     /\ cb_dep.cooldown_until = Some(cb_call.at + cooldown_seconds)
        ELSE ~cb_dep.is_healthy

C7_Witness ==
    /\ cb_call.op = "record_failure"
    /\ cb_call.before.is_healthy
    /\ cb_call.before.consecutive_failures = failure_threshold - 1
    /\ ~cb_dep.is_healthy
    /\ cb_fails = failure_threshold

(***************************************************************************)
(* C8: after record_success, whatever the state and the failure count of   *)
(* the deployment were, consecutive_failures = 0, is_healthy = true and    *)
(* cooldown_until = null.                                                  *)
(***************************************************************************)
C8_SuccessResets ==
    cb_call.op = "record_success" =>
        /\ cb_dep.consecutive_failures = 0
        /\ cb_dep.is_healthy
        /\ cb_dep.cooldown_until = NULL

C8_Witness ==
    /\ cb_call.op = "record_success"
    /\ ~cb_call.before.is_healthy
    /\ cb_call.before.consecutive_failures > failure_threshold
    /\ cb_call.before.cooldown_until # NULL
    /\ cb_dep.consecutive_failures = 0

(***************************************************************************)
(* C9: a record_failure on a HALF_OPEN deployment leaves is_healthy false  *)
(* and sets cooldown_until = now + 2 * cooldown_seconds, whatever          *)
(* consecutive_failures is.                                                *)
(***************************************************************************)
C9_HalfOpenFailureDoubles ==
    (cb_call.op = "record_failure"
        /\ get_state(cb_call.before, cb_call.at) = "half_open") =>
        /\ ~cb_dep.is_healthy
        /\ cb_dep.cooldown_until = Some(cb_call.at + 2 * cooldown_seconds)
        /\ cb_dep.consecutive_failures = cb_call.before.consecutive_failures + 1

C9_Witness ==
    /\ cb_call.op = "record_failure"
    /\ get_state(cb_call.before, cb_call.at) = "half_open"
    /\ cb_call.before.consecutive_failures > failure_threshold
    /\ cb_dep.cooldown_until = Some(cb_call.at + 2 * cooldown_seconds)

(***************************************************************************)
(* SpecCache: CacheManager.store, lookup and clear called one after the    *)
(* other on one cache, with the KV and the cache table each able to fail   *)
(* for the length of a call.                                               *)
(***************************************************************************)
InitCache ==
    /\ now = 0
    /\ IdleCB
    /\ IdleRL
    /\ IdlePipe
    /\ IdleCache
    /\ IdleReq
    /\ IdleDep
    /\ IdleAuth
    /\ IdleFn

\* What the promotion of a Tier-2 hit leaves in Tier 1.
Promote_wrong_key(kv, prompt_hash, entry, t) ==
    ExactSet(kv, entry.prompt_hash, entry.response_payload,
             exact_match_ttl_seconds, t)

Promote(kv, prompt_hash, entry, t) ==
    ExactSet(kv, prompt_hash, entry.response_payload,
             exact_match_ttl_seconds, t)

\* What store leaves in Tier 1 when the KV serves the SETEX.
StoreExact_no_write(kv, prompt_hash, payload, t) == kv

StoreExact(kv, prompt_hash, payload, t) ==
    ExactSet(kv, prompt_hash, payload, exact_match_ttl_seconds, t)

\* CacheManager.store(messages, model, response_payload, ...)
CacheManagerStore(messages, model, payload, kv, sem) ==
    LET prompt_text == normalize_prompt_for_embedding(messages)
        prompt_hash == compute_hash(prompt_text, model)
        call == [op |-> "store", messages |-> messages,
                 key |-> Some(prompt_hash),
                 result |-> MissResult, entry |-> 0, raised |-> FALSE]
    IN  /\ cache_ops < MaxCacheOps
        /\ cache_ops' = cache_ops + 1
        /\ cache_call' = call
        /\ cache_stored' = [cache_stored EXCEPT ![prompt_hash] =
               Some([messages |-> messages, payload |-> payload, at |-> now,
                     written |-> ~Blank(prompt_text) /\ kv = "ok"])]
        /\ IF Blank(prompt_text)
           THEN UNCHANGED <<exact, cache_entries>>
           ELSE /\ exact' = IF kv = "ok"
                            THEN StoreExact(exact, prompt_hash, payload, now)
                            ELSE exact
                \* a TimeoutError of the SETEX leaves the try block before
                \* the semantic store
                /\ cache_entries' =
                     IF kv # "timeout" /\ sem = "ok"
                     THEN Append(cache_entries,
                                 CacheEntry(prompt_text, model, payload,
                                            default_ttl_seconds, now))
                     ELSE cache_entries
        /\ UNCHANGED <<now, varsCB, varsRL, varsPipe, varsDep, varsAuth, varsFn, varsReq, cache_promoted>>

\* CacheManager.lookup(messages, model)
CacheManagerLookup(messages, model, kv, sem) ==
    LET prompt_text == normalize_prompt_for_embedding(messages)
        prompt_hash == compute_hash(prompt_text, model)
        call == [op |-> "lookup", messages |-> messages,
                 key |-> Some(prompt_hash),
                 result |-> MissResult, entry |-> 0, raised |-> FALSE]
        exact_payload == IF kv = "ok" THEN ExactGet(exact, prompt_hash) ELSE NULL
        near == Nearest(cache_entries, prompt_text, model, now)
    IN  /\ cache_ops < MaxCacheOps
        /\ cache_ops' = cache_ops + 1
        /\ UNCHANGED <<now, varsCB, varsRL, varsPipe, varsDep, varsAuth, varsFn, varsReq, cache_stored>>
        /\ IF Blank(prompt_text)
           THEN /\ cache_call' = call
                /\ UNCHANGED <<exact, cache_entries, cache_promoted>>
           ELSE IF kv = "timeout"
           \* ExactMatchCache.get catches ConnectionError only and the
           \* call is outside lookup's try block
           THEN /\ cache_call' = [call EXCEPT !.raised = TRUE]
                /\ UNCHANGED <<exact, cache_entries, cache_promoted>>
           ELSE IF exact_payload # NULL
           THEN /\ cache_call' =
                     [call EXCEPT !.result = HitResult(exact_payload[1], "exact")]
                /\ UNCHANGED <<exact, cache_entries, cache_promoted>>
           ELSE IF sem = "error" \/ near = {}
           THEN /\ cache_call' = call
                /\ UNCHANGED <<exact, cache_entries, cache_promoted>>
           ELSE \E i \in near :
                /\ cache_entries' = [cache_entries EXCEPT ![i].hit_count = @ + 1]
                /\ exact' = IF kv = "ok"
                            THEN Promote(exact, prompt_hash, cache_entries[i], now)
                            ELSE exact
                /\ cache_promoted' =
                     IF kv = "ok"
                     THEN [cache_promoted EXCEPT ![prompt_hash] =
                              Some([payload |-> cache_entries[i].response_payload,
                                    at |-> now, entry |-> i])]
                     ELSE cache_promoted
                /\ cache_call' =
                     [call EXCEPT !.result =
                                      HitResult(cache_entries[i].response_payload,
                                                "semantic"),
                                  !.entry = i]

\* CacheManager.clear(model)
CacheManagerClear(model, kv) ==
    LET call == [op |-> "clear", messages |-> <<>>, key |-> NULL,
                 result |-> MissResult, entry |-> 0, raised |-> kv = "timeout"]
    IN  /\ cache_ops < MaxCacheOps
        /\ cache_ops' = cache_ops + 1
        /\ cache_call' = call
        \* ExactMatchCache.clear deletes every key under the prefix
        /\ exact' = IF kv = "ok" THEN [k \in CacheKeys |-> NULL] ELSE exact
        \* a TimeoutError of the scan leaves clear before the semantic tier
        /\ cache_entries' =
             IF kv = "timeout" THEN cache_entries
             ELSE SelectSeq(cache_entries,
                            LAMBDA e : model # NULL /\ e.model # model[1])
        /\ cache_stored' = [k \in CacheKeys |-> NULL]
        /\ cache_promoted' = [k \in CacheKeys |-> NULL]
        /\ UNCHANGED <<now, varsCB, varsRL, varsPipe, varsDep, varsAuth, varsFn, varsReq>>

CacheTick ==
    /\ now < CacheMaxNow
    /\ now' = now + CacheTickSeconds
    /\ exact' = ExpireKeys(exact, now')
    /\ UNCHANGED <<varsCB, varsRL, varsPipe, varsDep, varsAuth, varsFn, varsReq, cache_entries, cache_call,
                   cache_stored, cache_promoted, cache_ops>>

NextCache ==
    \/ \E c \in CacheRequests, p \in Payloads,
          kv \in KVOutcomes, sem \in SemOutcomes :
             CacheManagerStore(c[1], c[2], p, kv, sem)
    \/ \E c \in CacheRequests, kv \in KVOutcomes, sem \in SemOutcomes :
             CacheManagerLookup(c[1], c[2], kv, sem)
    \/ \E mdl \in {NULL} \cup {Some(x) : x \in Models}, kv \in KVOutcomes :
          CacheManagerClear(mdl, kv)
    \/ CacheTick

SpecCache == InitCache /\ [][NextCache]_vars

(***************************************************************************)
(* SpecReq: one request from its first statement to the end of its         *)
(* database session.  The inputs (the key, the model, the messages, the    *)
(* guardrail configuration, whether the cache is enabled, streaming or     *)
(* not) are chosen at the start; what the cache, the router, the upstream  *)
(* and the client do is chosen at each step.                               *)
(***************************************************************************)
InitReq ==
    /\ now = 0
    /\ IdleCB
    /\ IdleRL
    /\ IdlePipe
    /\ IdleCache
    /\ IdleDep
    /\ IdleAuth
    /\ IdleFn
    /\ \E s \in BOOLEAN, m \in Models, c \in BOOLEAN, g \in GuardrailConfigs,
          k \in ReqKeys, msgs \in ReqMessages, u \in 0..1, t \in 0..MaxTokens :
          rr = [IdleRequestRun EXCEPT !.pc = "access", !.stream = s, !.model = m,
                                      !.cache_enabled = c, !.cfg = g, !.api_key = k,
                                      !.original = msgs, !.messages = msgs,
                                      !.rpm_before = u, !.tpm_before = t]
    /\ rr_tx = NewSession(rr.api_key.spend_usd)
    \* the key's RPM window is empty or full
    /\ rr.rpm_before = 1 => rr.api_key.rate_limit_rpm # NULL
    \* the key's TPM window holds between no unit and the key's limit
    /\ rr.tpm_before > 0 =>
          /\ rr.api_key.rate_limit_tpm # NULL
          /\ rr.tpm_before <= rr.api_key.rate_limit_tpm[1]
    /\ rr_db = [spend_usd |-> rr.api_key.spend_usd, request_logs |-> <<>>,
                rpm |-> rr.rpm_before, tpm |-> rr.tpm_before,
                deps |-> [d \in ReqDeployments |-> NewDeployment]]
    /\ rr_trace = <<>>
    /\ rr_body = <<>>

\* an exception leaves the handler
ReqRaise(kind) == [rr EXCEPT !.pc = "rollback", !.outcome = kind]

\* check_budget that lets a key spend up to and including its limit
\* (> for >=)
check_budget_allows_limit(api_key) ==
    /\ api_key.budget_limit_usd # NULL
    /\ api_key.spend_usd > api_key.budget_limit_usd[1]

\* check_budget(api_key): whether it raises BudgetExceededError
check_budget(api_key) ==
    /\ api_key.budget_limit_usd # NULL
    /\ api_key.spend_usd >= api_key.budget_limit_usd[1]

\* check_model_access and check_budget
ReqAccessControl ==
    /\ rr.pc = "access"
    /\ IF rr.api_key.allowed_models # NULL /\ rr.model \notin rr.api_key.allowed_models[1]
       THEN /\ rr' = ReqRaise("access_denied")
            /\ rr_trace' = Append(rr_trace, Step("access", 0, <<>>))
       ELSE /\ rr_trace' = rr_trace \o <<Step("access", 0, <<>>), Step("budget", 0, <<>>)>>
            /\ IF check_budget(rr.api_key)
               THEN rr' = ReqRaise("budget_exceeded")
               ELSE rr' = [rr EXCEPT !.pc = "rate_limit"]
    /\ UNCHANGED <<now, varsCB, varsRL, varsPipe, varsDep, varsAuth, varsFn, varsCache, rr_tx, rr_db, rr_body>>

\* _check_rate_limits
ReqCheckRateLimits ==
    /\ rr.pc = "rate_limit"
    /\ IF rr.api_key.rate_limit_rpm = NULL
       THEN /\ rr' = [rr EXCEPT !.pc = "guardrails"]
            /\ UNCHANGED <<rr_db, rr_trace>>
       ELSE /\ rr_trace' = Append(rr_trace, Step("rpm", 0, <<>>))
            /\ IF rr_db.rpm < rr.api_key.rate_limit_rpm[1]
               THEN /\ rr_db' = [rr_db EXCEPT !.rpm = @ + 1]
                    /\ rr' = [rr EXCEPT !.pc = "guardrails"]
               ELSE /\ rr' = ReqRaise("rate_limited")
                    /\ UNCHANGED rr_db
    /\ UNCHANGED <<now, varsCB, varsRL, varsPipe, varsDep, varsAuth, varsFn, varsCache, rr_tx, rr_body>>

\* The messages the request goes on with after run_pre_request returned.
SubstitutedMessages_original(gr_result, messages) == messages

SubstitutedMessages(gr_result, messages) ==
    IF /\ gr_result.messages_modified
       /\ gr_result.modified_messages # NULL
       /\ gr_result.modified_messages[1] # <<>>
    THEN gr_result.modified_messages[1]
    ELSE messages

\* the pre-request guardrails of create_completion and of
\* create_streaming_completion
ReqPreGuardrails ==
    /\ rr.pc = "guardrails"
    /\ LET gr_result == run_pre_request(rr.messages, rr.cfg)
           next_pc == IF rr.stream THEN "route" ELSE "cache_lookup"
       IN  IF ~rr.cfg.enabled
           THEN /\ rr' = [rr EXCEPT !.pc = next_pc, !.messages_dicts = rr.messages]
                /\ UNCHANGED rr_trace
           ELSE /\ rr_trace' = Append(rr_trace, Step("guardrails", 0, rr.messages))
                /\ IF gr_result.raised
                   THEN rr' = [ReqRaise("validation_error") EXCEPT !.gr = gr_result]
                   ELSE rr' = [rr EXCEPT
                          !.pc = next_pc,
                          !.gr = gr_result,
                          \* the streaming path keeps its messages_dicts
                          !.messages_dicts =
                              IF rr.stream THEN rr.messages
                              ELSE SubstitutedMessages(gr_result, rr.messages),
                          !.messages = SubstitutedMessages(gr_result, rr.messages)]
    /\ UNCHANGED <<now, varsCB, varsRL, varsPipe, varsDep, varsAuth, varsFn, varsCache, rr_tx, rr_db, rr_body>>

LookupOutcomes ==
    {"exact_hit", "semantic_hit", "miss", "embedding_error", "semantic_db_error",
     "exact_timeout"}

\* The request-log row of a cache hit.
CacheHitLog_costed == LogRow(1, "cache", NULL, calculate_cost(Usage(1)), TRUE)

CacheHitLog == LogRow(1, "cache", NULL, 0, TRUE)

\* Step 4 of create_completion: CacheManager.lookup and the return on a hit
ReqCacheLookup(outcome) ==
    /\ rr.pc = "cache_lookup"
    /\ IF ~rr.cache_enabled
       THEN /\ outcome = "miss"
            /\ rr' = [rr EXCEPT !.pc = "route"]
            /\ UNCHANGED <<rr_tx, rr_trace>>
       ELSE /\ rr_trace' = Append(rr_trace, Step("cache_lookup", 0, rr.messages_dicts))
            /\ CASE outcome \in {"exact_hit", "semantic_hit"} ->
                      /\ rr' = [rr EXCEPT !.pc = "commit", !.outcome = "cache_hit"]
                      /\ rr_tx' = [rr_tx EXCEPT !.new_logs =
                                      Append(@, CacheHitLog)]
                 [] outcome = "miss" ->
                      /\ rr' = [rr EXCEPT !.pc = "route"]
                      /\ UNCHANGED rr_tx
                 \* embed_text raises before any statement: caught, a miss
                 [] outcome = "embedding_error" ->
                      /\ rr' = [rr EXCEPT !.pc = "route", !.cache_failure = "lookup"]
                      /\ UNCHANGED rr_tx
                 \* the SELECT fails: caught, a miss; the session's
                 \* transaction is aborted in the database
                 [] outcome = "semantic_db_error" ->
                      /\ rr' = [rr EXCEPT !.pc = "route", !.cache_failure = "lookup"]
                      /\ rr_tx' = [rr_tx EXCEPT !.state = "aborted"]
                 \* ExactMatchCache.get lets a TimeoutError through, outside
                 \* lookup's try block
                 [] outcome = "exact_timeout" ->
                      /\ rr' = [ReqRaise("internal_error") EXCEPT
                                   !.cache_failure = "lookup_exact"]
                      /\ UNCHANGED rr_tx
    /\ UNCHANGED <<now, varsCB, varsRL, varsPipe, varsDep, varsAuth, varsFn, varsCache, rr_db, rr_body>>

\* RouterEngine.route
ReqRoute(chain) ==
    /\ rr.pc = "route"
    /\ rr_trace' = Append(rr_trace, Step("route", 0, <<>>))
    /\ IF rr_tx.state # "active"
       THEN chain = <<>> /\ rr' = ReqRaise("internal_error")
       ELSE IF chain = <<>>
       THEN rr' = ReqRaise("no_healthy_deployment")
       ELSE rr' = [rr EXCEPT !.chain = chain, !.idx = 1,
                            !.pc = IF rr.stream THEN "open" ELSE "send"]
    /\ UNCHANGED <<now, varsCB, varsRL, varsPipe, varsDep, varsAuth, varsFn, varsCache, rr_tx, rr_db, rr_body>>

\* one turn of the fallback loop of create_completion
ReqSend(ok) ==
    /\ rr.pc = "send"
    /\ LET d == rr.chain[rr.idx] IN
       /\ rr_trace' = Append(rr_trace, Step("send", d, rr.messages))
       /\ IF ok
          THEN /\ rr_tx' = [rr_tx EXCEPT !.deps[d] = record_success(@)]
               /\ rr' = [rr EXCEPT !.used = d, !.usage = Usage(1), !.pc = "after"]
          ELSE /\ rr_tx' = [rr_tx EXCEPT !.deps[d] = record_failure(@, now)]
               /\ rr' = IF rr.idx < Len(rr.chain)
                        THEN [rr EXCEPT !.last_error = d, !.idx = @ + 1]
                        ELSE [ReqRaise("provider_error") EXCEPT !.last_error = d]
    /\ UNCHANGED <<now, varsCB, varsRL, varsPipe, varsDep, varsAuth, varsFn, varsCache, rr_db, rr_body>>

StoreOutcomes ==
    {"ok", "exact_connection_error", "exact_timeout", "embedding_error",
     "semantic_db_error"}

\* the TPM bucket of a key that holds n units, all inside the window at t
BucketOf(n, t) == IF n = 0 THEN EmptyBag ELSE [s \in {t} |-> n]

\* RateLimiter.update_token_usage: check with increment = token_count; the
\* units the bucket holds afterwards
update_token_usage(current, token_count, limit, t) ==
    ZCARD(RATE_LIMIT_SCRIPT(BucketOf(current, t), limit, window_seconds, t,
                            token_count).zset)

\* CompletionService._update_token_usage: the key's bucket after the call
_update_token_usage(api_key, current, total_tokens, t) ==
    IF api_key.rate_limit_tpm = NULL THEN current
    ELSE update_token_usage(current, total_tokens, api_key.rate_limit_tpm[1], t)

\* the steps a request runs after the upstream's answer
StepsAfterResponse_store_first ==
    (IF rr.cfg.enabled THEN <<Step("post_guardrails", 0, <<>>)>> ELSE <<>>)
    \o (IF rr.cache_enabled
        THEN <<Step("cache_store", 0, rr.messages_dicts)>> ELSE <<>>)
    \o <<Step("spend", 0, <<>>)>>
    \o (IF rr.api_key.rate_limit_tpm # NULL THEN <<Step("tpm", 0, <<>>)>> ELSE <<>>)
    \o <<Step("log", 0, <<>>)>>

StepsAfterResponse ==
    (IF rr.cfg.enabled THEN <<Step("post_guardrails", 0, <<>>)>> ELSE <<>>)
    \o <<Step("spend", 0, <<>>)>>
    \o (IF rr.api_key.rate_limit_tpm # NULL THEN <<Step("tpm", 0, <<>>)>> ELSE <<>>)
    \o (IF rr.cache_enabled
        THEN <<Step("cache_store", 0, rr.messages_dicts)>> ELSE <<>>)
    \o <<Step("log", 0, <<>>)>>

\* Steps 7 to 11 of create_completion
ReqAfterResponse(store) ==
    /\ rr.pc = "after"
    /\ ~rr.cache_enabled => store = "ok"
    /\ LET cost == calculate_cost(rr.usage) IN
       /\ rr_trace' = rr_trace \o StepsAfterResponse
       /\ rr_tx' = [rr_tx EXCEPT
             !.spend_usd = @ + cost,
             !.flushed = TRUE,
             \* a flush that fails inside SemanticCache.store rolls the
             \* session's transaction back and leaves it unusable
             !.state = IF store = "semantic_db_error" THEN "deactivated" ELSE @,
             !.new_logs = Append(@, LogRow(1, provider_of(rr.used), Some(rr.used),
                                           cost, FALSE))]
       /\ rr_db' = [rr_db EXCEPT !.tpm =
             _update_token_usage(rr.api_key, @,
                rr.usage.prompt_tokens + rr.usage.completion_tokens, now)]
       /\ rr' = [rr EXCEPT !.cost = cost, !.pc = "commit", !.outcome = "ok",
                           !.cache_failure = IF store # "ok" THEN "store" ELSE @]
    /\ UNCHANGED <<now, varsCB, varsRL, varsPipe, varsDep, varsAuth, varsFn, varsCache, rr_body>>

\* Step 7 of create_completion when run_post_response raises (its
\* _load_rules query fails): the call is in no try block, so the exception
\* leaves the handler before Step 8.
ReqPostGuardrailsRaise ==
    /\ rr.pc = "after"
    /\ rr.cfg.enabled
    /\ rr_trace' = Append(rr_trace, Step("post_guardrails", 0, <<>>))
    /\ rr' = [ReqRaise("internal_error") EXCEPT !.guardrail_failure = "post"]
    /\ UNCHANGED <<now, varsCB, varsRL, varsPipe, varsDep, varsAuth, varsFn, varsCache, rr_tx, rr_db, rr_body>>

\* _stream_with_fallback: adapter.stream(request, deployment)
ReqStreamOpen ==
    /\ rr.pc = "open"
    /\ rr_trace' = Append(rr_trace, Step("send", rr.chain[rr.idx], rr.messages))
    /\ rr' = [rr EXCEPT !.pc = "streaming"]
    /\ UNCHANGED <<now, varsCB, varsRL, varsPipe, varsDep, varsAuth, varsFn, varsCache, rr_tx, rr_db, rr_body>>

\* StreamAccumulator.record_chunk, for a chunk with content
record_chunk(accumulator) ==
    [accumulator EXCEPT !.chunks_sent = @ + 1, !.completion_tokens = @ + 1]

\* _format_and_accumulate: one chunk of the adapter is counted if it has
\* choices and is forwarded in any case.  Only the OpenAI adapter passes on
\* events without choices.
ReqStreamChunk(has_choices) ==
    /\ rr.pc = "streaming"
    /\ Len(rr_body) < MaxLines
    /\ ~has_choices => provider_of(rr.chain[rr.idx]) = "openai"
    /\ rr_body' = Append(rr_body, Line("chunk", rr.chain[rr.idx]))
    /\ rr' = [rr EXCEPT !.accumulator =
                 IF has_choices THEN record_chunk(@) ELSE @]
    /\ UNCHANGED <<now, varsCB, varsRL, varsPipe, varsDep, varsAuth, varsFn, varsCache, rr_tx, rr_db, rr_trace>>

\* the adapter's iterator ends: [DONE], record_success, leave the loop
ReqStreamClose ==
    /\ rr.pc = "streaming"
    /\ LET d == rr.chain[rr.idx] IN
       /\ rr_body' = Append(rr_body, SSE_DONE)
       /\ rr_tx' = [rr_tx EXCEPT !.deps[d] = record_success(@)]
       /\ rr' = [rr EXCEPT !.used = d, !.pc = "after_stream"]
    /\ UNCHANGED <<now, varsCB, varsRL, varsPipe, varsDep, varsAuth, varsFn, varsCache, rr_db, rr_trace>>

\* Whether the orchestrator goes on to the next deployment.
Retryable_always(accumulator) == TRUE

Retryable(accumulator) == accumulator.chunks_sent = 0

\* the adapter raises ProviderError (Anthropic, Google: a status other
\* than 200 before the first event, a timeout at any point)
ReqStreamProviderError ==
    /\ rr.pc = "streaming"
    /\ provider_of(rr.chain[rr.idx]) # "openai"
    /\ LET d == rr.chain[rr.idx] IN
       /\ rr_tx' = [rr_tx EXCEPT !.deps[d] = record_failure(@, now)]
       /\ rr_trace' = Append(rr_trace, Step("provider_error", d, <<>>))
       /\ IF Retryable(rr.accumulator)
          THEN /\ rr' = IF rr.idx < Len(rr.chain)
                        THEN [rr EXCEPT !.last_error = d, !.idx = @ + 1, !.pc = "open"]
                        ELSE [rr EXCEPT !.last_error = d, !.pc = "after_stream"]
               /\ UNCHANGED rr_body
          ELSE /\ rr_body' = rr_body \o <<Line("error", d), SSE_DONE>>
               /\ rr' = [rr EXCEPT !.used = d, !.pc = "after_stream"]
    /\ UNCHANGED <<now, varsCB, varsRL, varsPipe, varsDep, varsAuth, varsFn, varsCache, rr_db>>

\* the adapter raises something else (OpenAI: any httpx error, a timeout
\* included; Anthropic, Google: a connect or read error): the except clause
\* does not match and the generator ends there
ReqStreamOtherError ==
    /\ rr.pc = "streaming"
    /\ rr' = [rr EXCEPT !.pc = "end_stream", !.outcome = "internal_error"]
    /\ UNCHANGED <<now, varsCB, varsRL, varsPipe, varsDep, varsAuth, varsFn, varsCache, rr_tx, rr_db, rr_trace,
                   rr_body>>

\* the client goes away: the generator is closed where it is suspended
ReqClientCancel ==
    /\ rr.pc = "streaming"
    /\ rr' = [rr EXCEPT !.pc = "end_stream", !.cancelled = TRUE]
    /\ UNCHANGED <<now, varsCB, varsRL, varsPipe, varsDep, varsAuth, varsFn, varsCache, rr_tx, rr_db, rr_trace,
                   rr_body>>

\* _stream_with_fallback after the loop: the error of a chain that failed
\* as a whole, or the post-stream side effects
ReqAfterStream ==
    /\ rr.pc = "after_stream"
    /\ IF rr.used = 0 /\ rr.accumulator.chunks_sent = 0
       THEN /\ rr_body' = rr_body \o <<Line("error", 0), SSE_DONE>>
            /\ rr' = [rr EXCEPT !.pc = "commit", !.outcome = "all_failed"]
            /\ UNCHANGED <<rr_tx, rr_db, rr_trace>>
       ELSE LET usage == [prompt_tokens |-> 1,
                          completion_tokens |-> rr.accumulator.completion_tokens]
                cost == calculate_cost(usage)
            IN  /\ rr_trace' = rr_trace \o <<Step("spend", 0, <<>>)>>
                      \o (IF rr.api_key.rate_limit_tpm # NULL
                          THEN <<Step("tpm", 0, <<>>)>> ELSE <<>>)
                      \o <<Step("log", 0, <<>>)>>
                /\ rr_tx' = [rr_tx EXCEPT
                      !.spend_usd = @ + cost,
                      !.flushed = TRUE,
                      !.new_logs = Append(@, LogRow(1, provider_of(rr.used),
                                                    Some(rr.used), cost, FALSE))]
                /\ rr_db' = [rr_db EXCEPT !.tpm =
                      _update_token_usage(rr.api_key, @,
                         usage.prompt_tokens + usage.completion_tokens, now)]
                /\ rr' = [rr EXCEPT !.usage = usage, !.cost = cost,
                                    !.pc = "commit", !.outcome = "ok"]
                /\ UNCHANGED rr_body
    /\ UNCHANGED <<now, varsCB, varsRL, varsPipe, varsDep, varsAuth, varsFn, varsCache>>

\* get_db_session after the handler returned: session.commit()
ReqCommit ==
    /\ rr.pc \in {"commit", "end_stream"}
    /\ IF rr_tx.state = "active"
       THEN /\ rr_db' = [rr_db EXCEPT !.spend_usd = rr_tx.spend_usd,
                                      !.request_logs = @ \o rr_tx.new_logs,
                                      !.deps = rr_tx.deps]
            /\ rr' = [rr EXCEPT !.pc = "done"]
       \* commit raises PendingRollbackError; the except clause rolls back
       ELSE /\ rr' = [rr EXCEPT !.pc = "done", !.outcome = "internal_error"]
            /\ UNCHANGED rr_db
    /\ UNCHANGED <<now, varsCB, varsRL, varsPipe, varsDep, varsAuth, varsFn, varsCache, rr_tx, rr_trace, rr_body>>

\* get_db_session after an exception: session.rollback()
ReqRollback ==
    /\ rr.pc \in {"rollback", "end_stream"}
    /\ rr' = [rr EXCEPT !.pc = "done"]
    /\ UNCHANGED <<now, varsCB, varsRL, varsPipe, varsDep, varsAuth, varsFn, varsCache, rr_tx, rr_db, rr_trace,
                   rr_body>>

NextReq ==
    \/ ReqAccessControl
    \/ ReqCheckRateLimits
    \/ ReqPreGuardrails
    \/ \E outcome \in LookupOutcomes : ReqCacheLookup(outcome)
    \/ \E chain \in Chains \cup {<<>>} : ReqRoute(chain)
    \/ \E ok \in BOOLEAN : ReqSend(ok)
    \/ \E store \in StoreOutcomes : ReqAfterResponse(store)
    \/ ReqPostGuardrailsRaise
    \/ ReqStreamOpen
    \/ \E has_choices \in BOOLEAN : ReqStreamChunk(has_choices)
    \/ ReqStreamClose
    \/ ReqStreamProviderError
    \/ ReqStreamOtherError
    \/ ReqClientCancel
    \/ ReqAfterStream
    \/ ReqCommit
    \/ ReqRollback

SpecReq == InitReq /\ [][NextReq]_vars

\* The call a step makes on the cache, if it is a lookup the KV serves.
ServedLookup(c) == \E sem \in SemOutcomes : CacheManagerLookup(c[1], c[2], "ok", sem)
KeyOf(c) == compute_hash(normalize_prompt_for_embedding(c[1]), c[2])
\* the last store under key k since the last clear reached Tier 1 and its
\* time to live is not over
StoredLive(k) ==
    /\ cache_stored[k] # NULL
    /\ cache_stored[k][1].written
    /\ now < cache_stored[k][1].at + exact_match_ttl_seconds

ChunkLines == {i \in 1..Len(rr_body) : rr_body[i].kind = "chunk"}
StepsOf(name) == {i \in 1..Len(rr_trace) : rr_trace[i].step = name}

(***************************************************************************)
(* C11: in a streaming request, a deployment is tried after a              *)
(* ProviderError of the one before only if no line of the failed one is in *)
(* the body; a ProviderError of a deployment with a chunk in the body puts *)
(* one error line and then [DONE] at the end of the body and is the last   *)
(* thing any deployment was asked; the chunks of a body all come from one  *)
(* deployment.                                                             *)
(***************************************************************************)
C11_NoFallbackAfterForward ==
    rr.stream =>
      /\ \A i \in StepsOf("provider_error"), j \in StepsOf("send") :
            i < j => \A l \in 1..Len(rr_body) : rr_body[l].d # rr_trace[i].d
      /\ \A i \in StepsOf("provider_error") :
            (\E l \in ChunkLines : rr_body[l].d = rr_trace[i].d)
            => /\ i = Len(rr_trace) \/ rr_trace[i + 1].step \notin {"send", "provider_error"}
               /\ \A j \in StepsOf("send") : j < i
               /\ Len(rr_body) >= 3
               /\ rr_body[Len(rr_body) - 1] = Line("error", rr_trace[i].d)
               /\ rr_body[Len(rr_body)] = SSE_DONE
               /\ Cardinality({l \in 1..Len(rr_body) : rr_body[l].kind = "error"}) = 1
      /\ Cardinality({rr_body[l].d : l \in ChunkLines}) <= 1

\* a deployment failed after its first chunk with another one left in the
\* chain, and the request is over
C11_Witness ==
    /\ rr.stream
    /\ rr.pc = "done"
    /\ Len(rr.chain) = 2
    /\ rr.idx = 1
    /\ rr_body = <<Line("chunk", rr.chain[1]), Line("error", rr.chain[1]), SSE_DONE>>

(***************************************************************************)
(* C12: the body of every streaming response that the client did not cut   *)
(* short, whatever the upstream did, has exactly one [DONE] line, and it   *)
(* is the last line.                                                       *)
(***************************************************************************)
C12_OneDoneLast ==
    (rr.stream /\ rr.pc = "done" /\ rr.chain # <<>> /\ ~rr.cancelled)
    => /\ rr_body # <<>>
       /\ rr_body[Len(rr_body)] = SSE_DONE
       /\ Cardinality({l \in 1..Len(rr_body) : rr_body[l] = SSE_DONE}) = 1

(***************************************************************************)
(* C13: when the client cancels a streaming response after chunks were     *)
(* received from the upstream, the cost of the tokens accumulated so far   *)
(* is added to the principal's spend and recorded in one request-log row.  *)
(***************************************************************************)
C13_CancelStillAccounts ==
    (rr.stream /\ rr.pc = "done" /\ rr.cancelled /\ rr.accumulator.chunks_sent >= 1)
    => LET cost == calculate_cost([prompt_tokens |-> 1,
                       completion_tokens |-> rr.accumulator.completion_tokens])
       IN  /\ rr_db.spend_usd = rr.api_key.spend_usd + cost
           /\ Len(rr_db.request_logs) = 1
           /\ rr_db.request_logs[1].cost_usd = cost

\* The steps that hand messages to the cache or to an upstream.
MessageSteps == StepsOf("cache_lookup") \cup StepsOf("send") \cup StepsOf("cache_store")

(***************************************************************************)
(* C14: when the pre-request guardrails redacted the messages, every cache *)
(* lookup, every upstream request and the cache store of the request, in   *)
(* the streaming and in the non-streaming path, is made with the redacted  *)
(* messages, and none of them carries the text that was redacted.          *)
(***************************************************************************)
C14_RedactedEverywhere ==
    rr.gr.messages_modified =>
      \A i \in MessageSteps :
         /\ rr_trace[i].messages = redact_messages(rr.original)
         /\ ~Contains(rr_trace[i].messages, PIIWord)

\* a request whose messages were redacted looked up the cache, fell back
\* from one upstream to the next and stored the answer
C14_Witness ==
    /\ rr.pc = "done"
    /\ rr.gr.messages_modified
    /\ Contains(rr.original, PIIWord)
    /\ StepsOf("cache_lookup") # {}
    /\ Cardinality(StepsOf("send")) = 2
    /\ StepsOf("cache_store") # {}

(***************************************************************************)
(* C15: a request on which run_pre_request ran was refused with a          *)
(* validation error exactly if one of the collected violations has action  *)
(* block; if so, its last step is the guardrail step: no cache lookup, no  *)
(* router query, no upstream call; if not, the violations are returned     *)
(* with passed = true and the request is not refused for them.             *)
(***************************************************************************)
C15_BlockIffBlockingViolation ==
    StepsOf("guardrails") # {} =>
      LET blocking == \E i \in 1..Len(rr.gr.violations) :
                         rr.gr.violations[i].action = "block"
      IN  /\ rr.gr.raised <=> blocking
          /\ rr.outcome = "validation_error" <=> blocking
          /\ blocking =>
               /\ rr_trace[Len(rr_trace)].step = "guardrails"
               /\ MessageSteps \cup StepsOf("route") = {}
               /\ rr.pc \in {"rollback", "done"}
          /\ ~blocking =>
               /\ rr.gr.passed
               /\ rr.pc \notin {"guardrails", "rollback"} \/ rr.outcome # "none"

\* a request with two violations, neither of them blocking, was answered by
\* an upstream
C15_Witness ==
    /\ rr.pc = "done"
    /\ rr.outcome = "ok"
    /\ Len(rr.gr.violations) = 2
    /\ \A i \in 1..2 : rr.gr.violations[i].action \in {"warn", "log"}
    /\ StepsOf("send") # {}

\* The place of a step in the written order of the pipeline.
StepRank(name) ==
    CASE name = "access" -> 1
      [] name = "budget" -> 2
      [] name = "rpm" -> 3
      [] name = "guardrails" -> 4
      [] name = "cache_lookup" -> 5
      [] name = "route" -> 6
      [] name = "send" -> 7
      [] name = "post_guardrails" -> 8
      [] name = "spend" -> 9
      [] name = "tpm" -> 10
      [] name = "cache_store" -> 11
      [] name = "log" -> 12

\* The step at which a refused request is refused.
RefusingStep(kind) ==
    CASE kind = "access_denied" -> "access"
      [] kind = "budget_exceeded" -> "budget"
      [] kind = "rate_limited" -> "rpm"
      [] kind = "validation_error" -> "guardrails"
      [] kind = "no_healthy_deployment" -> "route"
      [] kind = "provider_error" -> "send"

C17_CacheHitIsFree ==
    /\ rr.outcome = "cache_hit" =>
         /\ StepsOf("route") \cup StepsOf("send") = {}
         /\ rr_tx.spend_usd = rr.api_key.spend_usd
         /\ rr_db.spend_usd = rr.api_key.spend_usd
         /\ rr_db.tpm = rr.tpm_before
         /\ \A d \in ReqDeployments :
               rr_tx.deps[d] = NewDeployment /\ rr_db.deps[d] = NewDeployment
         /\ Len(rr_tx.new_logs) = 1
         /\ rr_tx.new_logs[1].provider = "cache"
         /\ rr_tx.new_logs[1].cost_usd = 0
         /\ rr_tx.new_logs[1].cached
         /\ rr_tx.new_logs[1].deployment_id = NULL
         /\ rr.pc = "done" => rr_db.request_logs = rr_tx.new_logs
    /\ \A i \in 1..Len(rr_db.request_logs) :
          rr_db.request_logs[i].cached => rr_db.request_logs[i].cost_usd = 0

\* a request with a TPM limit was answered from the cache and its row is
\* committed
C17_Witness ==
    /\ rr.pc = "done"
    /\ rr.outcome = "cache_hit"
    /\ rr.api_key.rate_limit_tpm # NULL
    /\ Len(rr_db.request_logs) = 1
    /\ rr_db.request_logs[1].cached

(***************************************************************************)
(* C20: a failure inside the cache layer does not fail the request: after  *)
(* an error of the semantic tier during lookup the request goes on to the  *)
(* router as after a miss, and after an error while writing either tier in *)
(* store the request ends with its answer, its spend updated and its log   *)
(* row appended.                                                           *)
(***************************************************************************)
C20_CacheFailureHarmless ==
    rr.pc = "done" =>
      /\ rr.cache_failure = "lookup" =>
            /\ StepsOf("route") # {}
            /\ rr.outcome # "internal_error"
      /\ rr.cache_failure = "store" =>
            /\ rr.outcome = "ok"
            /\ rr_db.spend_usd = rr.api_key.spend_usd + rr.cost
            /\ Len(rr_db.request_logs) = 1

\* the model a Tier-1 key was computed for
KeyModel(k) == k[2][1]

(***************************************************************************)
(* C21: CacheManager.clear(model = m) removes every entry stored for m     *)
(* from both tiers and leaves the entries of every other model in both     *)
(* tiers as they were; clear() without a model removes every entry of both *)
(* tiers.  Stated for the calls in which the KV serves the scan.           *)
(***************************************************************************)
C21_ClearOnlyTheModel ==
    [][ /\ \A m \in Models :
            CacheManagerClear(Some(m), "ok") =>
              /\ \A k \in CacheKeys :
                    exact'[k] = IF KeyModel(k) = m THEN NULL ELSE exact[k]
              /\ cache_entries' =
                    SelectSeq(cache_entries, LAMBDA e : e.model # m)
        /\ CacheManagerClear(NULL, "ok") =>
              /\ \A k \in CacheKeys : exact'[k] = NULL
              /\ cache_entries' = <<>>
      ]_vars

(***************************************************************************)
(* C28: in every reachable state of a deployment row, cooldown_until is    *)
(* non-null if and only if is_healthy is false, and consecutive_failures   *)
(* is not negative.  The rows are written by record_success and            *)
(* record_failure of the requests' sessions; the admin create and update   *)
(* operations write no health column (a created row has the defaults of    *)
(* NewDeployment).                                                         *)
(***************************************************************************)
C28_HealthFieldsConsistent ==
    \A d \in Deployments :
        /\ (db_dep[d].cooldown_until # NULL) <=> ~db_dep[d].is_healthy
        /\ db_dep[d].consecutive_failures >= 0

(***************************************************************************)
(* SpecDep: the deployments table under the admin operations, the circuit  *)
(* breaker's calls of one session at a time, and the router's route.       *)
(***************************************************************************)
InitDep ==
    /\ now = 0
    /\ IdleCB
    /\ IdleRL
    /\ IdlePipe
    /\ IdleCache
    /\ IdleReq
    /\ IdleAuth
    /\ IdleFn
    /\ dp_rows = [d \in DepIds |-> NULL]
    /\ dp_call = NoDepCall
    /\ dp_ops = 0
    /\ dp_fallback \in BOOLEAN

\* the sequences that hold every element of S once
Orderings(S) ==
    { f \in [1..Cardinality(S) -> S] : \A i, j \in DOMAIN f : f[i] = f[j] => i = j }

\* PriorityStrategy.rank: sorted(deployments, key=priority).  The sort is
\* stable and the SELECT of route has no ORDER BY, so deployments of equal
\* priority come in whatever order the database returned them.
PriorityRank(rows, S) ==
    { f \in Orderings(S) :
        \A i, j \in DOMAIN f :
            i < j => rows[f[i]][1].priority <= rows[f[j]][1].priority }

\* route that leaves out the circuit breaker's filter
route_unfiltered(rows, model, t, fallback_enabled) ==
    LET all_deployments ==
            { d \in DepIds : /\ rows[d] # NULL
                             /\ rows[d][1].model_name = model
                             /\ rows[d][1].is_active }
    IN  IF all_deployments = {}
        THEN { [raised |-> TRUE, chain |-> <<>>] }
        ELSE { [raised |-> FALSE,
                chain |-> Truncate(ranked, IF fallback_enabled
                                           THEN max_retries + 1 ELSE 1)] :
                 ranked \in PriorityRank(rows, all_deployments) }

\* RouterEngine.route(model, db): the results it can give
route(rows, model, t, fallback_enabled) ==
    LET all_deployments ==
            { d \in DepIds : /\ rows[d] # NULL
                             /\ rows[d][1].model_name = model
                             /\ rows[d][1].is_active }
        available == { d \in all_deployments : is_available(rows[d][1], t) }
    IN  IF all_deployments = {} \/ available = {}
        THEN { [raised |-> TRUE, chain |-> <<>>] }
        ELSE { [raised |-> FALSE,
                chain |-> Truncate(ranked, IF fallback_enabled
                                           THEN max_retries + 1 ELSE 1)] :
                 ranked \in PriorityRank(rows, available) }

\* DeploymentService.create_deployment
AdminCreate(d, model_name, prio) ==
    /\ dp_ops < MaxDepOps
    /\ dp_rows[d] = NULL
    /\ dp_rows' = [dp_rows EXCEPT ![d] = Some(DeploymentRow(model_name, prio))]
    /\ dp_call' = [NoDepCall EXCEPT !.op = "create", !.at = now]
    /\ dp_ops' = dp_ops + 1
    /\ UNCHANGED <<now, varsCB, varsRL, varsPipe, varsCache, varsReq, varsAuth, varsFn, dp_fallback>>

\* DeploymentService.update_deployment with the fields set in the request
\* (NULL: the field is not set)
AdminUpdate(d, prio, active) ==
    /\ dp_ops < MaxDepOps
    /\ dp_rows[d] # NULL
    /\ prio # NULL \/ active # NULL
    /\ dp_rows' = [dp_rows EXCEPT ![d] =
          Some([dp_rows[d][1] EXCEPT
                  !.priority = IF prio = NULL THEN @ ELSE prio[1],
                  !.is_active = IF active = NULL THEN @ ELSE active[1]])]
    /\ dp_call' = [NoDepCall EXCEPT !.op = "update", !.at = now]
    /\ dp_ops' = dp_ops + 1
    /\ UNCHANGED <<now, varsCB, varsRL, varsPipe, varsCache, varsReq, varsAuth, varsFn, dp_fallback>>

\* RouterEngine.record_success / record_failure on a row, committed
DepRecordSuccess(d) ==
    /\ dp_ops < MaxDepOps
    /\ dp_rows[d] # NULL
    /\ dp_rows' = [dp_rows EXCEPT ![d] = Some(record_success(dp_rows[d][1]))]
    /\ dp_call' = [NoDepCall EXCEPT !.op = "record_success", !.at = now]
    /\ dp_ops' = dp_ops + 1
    /\ UNCHANGED <<now, varsCB, varsRL, varsPipe, varsCache, varsReq, varsAuth, varsFn, dp_fallback>>

DepRecordFailure(d) ==
    /\ dp_ops < MaxDepOps
    /\ dp_rows[d] # NULL
    /\ dp_rows' = [dp_rows EXCEPT ![d] = Some(record_failure(dp_rows[d][1], now))]
    /\ dp_call' = [NoDepCall EXCEPT !.op = "record_failure", !.at = now]
    /\ dp_ops' = dp_ops + 1
    /\ UNCHANGED <<now, varsCB, varsRL, varsPipe, varsCache, varsReq, varsAuth, varsFn, dp_fallback>>

\* RouterEngine.route(model, db)
DepRoute(model) ==
    /\ \E res \in route(dp_rows, model, now, dp_fallback) :
          dp_call' = [NoDepCall EXCEPT !.op = "route", !.model = model,
                                       !.at = now, !.raised = res.raised,
                                       !.chain = res.chain]
    /\ UNCHANGED <<now, varsCB, varsRL, varsPipe, varsCache, varsReq, varsAuth, varsFn,
                   dp_rows, dp_ops, dp_fallback>>

\* CircuitBreaker.get_state and is_available on a deployment object
DepGetState(obj) ==
    /\ dp_call' = [NoDepCall EXCEPT !.op = "get_state", !.arg = obj, !.at = now,
                                    !.state = get_state(obj, now),
                                    !.available = is_available(obj, now)]
    /\ UNCHANGED <<now, varsCB, varsRL, varsPipe, varsCache, varsReq, varsAuth, varsFn,
                   dp_rows, dp_ops, dp_fallback>>

DepTick ==
    /\ now + TickSeconds <= DepMaxNow
    /\ now' = now + TickSeconds
    /\ UNCHANGED <<varsCB, varsRL, varsPipe, varsCache, varsReq, varsAuth, varsFn, varsDep>>

NextDep ==
    \/ \E d \in DepIds, p \in Priorities :
          \E m \in CreatedModels(d) : AdminCreate(d, m, p)
    \/ \E d \in DepIds, p \in {NULL} \cup {Some(x) : x \in Priorities},
          a \in {NULL, Some(TRUE), Some(FALSE)} : AdminUpdate(d, p, a)
    \/ \E d \in DepIds : DepRecordSuccess(d)
    \/ \E d \in DepIds : DepRecordFailure(d)
    \/ \E m \in Models : DepRoute(m)
    \/ \E obj \in DeploymentObjects : DepGetState(obj)
    \/ DepTick

SpecDep == InitDep /\ [][NextDep]_vars

\* the active deployments of a model, and those of them that are not OPEN
\* at time t
ActiveOf(model) ==
    { d \in DepIds : /\ dp_rows[d] # NULL
                     /\ dp_rows[d][1].model_name = model
                     /\ dp_rows[d][1].is_active }
NotOpenOf(model, t) ==
    { d \in ActiveOf(model) : get_state(dp_rows[d][1], t) # "open" }

(***************************************************************************)
(* C22: route(model) raises no_healthy_deployment exactly when the model   *)
(* has no active deployment or none that is available; otherwise it        *)
(* returns a non-empty list without duplicates whose elements are active   *)
(* deployments of the model that are not OPEN at route time, in ascending  *)
(* order of priority, of length at most max_retries + 1, and of length 1   *)
(* when fallback is disabled.                                              *)
(***************************************************************************)
C22_RouteChain ==
    dp_call.op = "route" =>
      LET chain == dp_call.chain
          ok == NotOpenOf(dp_call.model, dp_call.at)
      IN  /\ dp_call.raised <=> ok = {}
          /\ ~dp_call.raised =>
                /\ Len(chain) >= 1
                /\ \A i, j \in 1..Len(chain) : chain[i] = chain[j] => i = j
                /\ \A i \in 1..Len(chain) : chain[i] \in ok
                /\ \A i, j \in 1..Len(chain) :
                      i < j => dp_rows[chain[i]][1].priority
                                  <= dp_rows[chain[j]][1].priority
                /\ Len(chain) <= max_retries + 1
                /\ ~dp_fallback => Len(chain) = 1

\* route cut a ranking of four available deployments of two priorities down
\* to max_retries + 1
C22_Witness ==
    /\ dp_call.op = "route"
    /\ ~dp_call.raised
    /\ dp_fallback
    /\ Len(dp_call.chain) = max_retries + 1
    /\ Cardinality(NotOpenOf(dp_call.model, dp_call.at)) = max_retries + 2
    /\ dp_rows[dp_call.chain[1]][1].priority
          < dp_rows[dp_call.chain[3]][1].priority

InitAuth ==
    /\ now = 0
    /\ IdleCB
    /\ IdleRL
    /\ IdlePipe
    /\ IdleCache
    /\ IdleReq
    /\ IdleDep
    /\ IdleFn
    /\ ak_keys = [k \in RawKeys |-> NULL]
    /\ ak_call = NoAuthCall
    /\ ak_ops = 0
    /\ ak_master \in {NULL, Some(MasterSecret)}

\* get_api_key that treats a key as expired at the instant of expires_at
\* (<= for <)
get_api_key_expired_at_instant(bearer, keys, master, t) ==
    IF bearer = NULL THEN [authenticated |-> FALSE, principal |-> NULL]
    ELSE IF master # NULL /\ bearer[1] = master[1]
    THEN [authenticated |-> TRUE, principal |-> Some("master")]
    ELSE LET key_hash == hash_api_key(bearer[1])
             found == { k \in DOMAIN keys : /\ keys[k] # NULL
                                            /\ keys[k][1].key_hash = key_hash
                                            /\ keys[k][1].is_active }
         IN  IF found = {} THEN [authenticated |-> FALSE, principal |-> NULL]
             ELSE LET k == CHOOSE x \in found : TRUE IN
                  IF /\ keys[k][1].expires_at # NULL
                     /\ keys[k][1].expires_at[1] <= t
                  THEN [authenticated |-> FALSE, principal |-> NULL]
                  ELSE [authenticated |-> TRUE, principal |-> Some(k)]

\* get_api_key(authorization, db, settings); bearer is NULL for a missing or
\* malformed Authorization header.  key_hash is unique, so the SELECT finds
\* at most one row.
get_api_key(bearer, keys, master, t) ==
    IF bearer = NULL THEN [authenticated |-> FALSE, principal |-> NULL]
    ELSE IF master # NULL /\ bearer[1] = master[1]
    THEN [authenticated |-> TRUE, principal |-> Some("master")]
    ELSE LET key_hash == hash_api_key(bearer[1])
             found == { k \in DOMAIN keys : /\ keys[k] # NULL
                                            /\ keys[k][1].key_hash = key_hash
                                            /\ keys[k][1].is_active }
         IN  IF found = {} THEN [authenticated |-> FALSE, principal |-> NULL]
             ELSE LET k == CHOOSE x \in found : TRUE IN
                  IF /\ keys[k][1].expires_at # NULL
                     /\ keys[k][1].expires_at[1] < t
                  THEN [authenticated |-> FALSE, principal |-> NULL]
                  ELSE [authenticated |-> TRUE, principal |-> Some(k)]

\* KeyService.create_key: expires_at is now + expires_in_days, or null
KeyCreate(k, expires_in) ==
    /\ ak_ops < MaxAuthOps
    /\ ak_keys[k] = NULL
    /\ ak_keys' = [ak_keys EXCEPT ![k] =
          Some([key_hash |-> hash_api_key(k), is_active |-> TRUE,
                expires_at |-> IF expires_in = NULL THEN NULL
                               ELSE Some(now + expires_in[1])])]
    /\ ak_call' = [NoAuthCall EXCEPT !.op = "create_key", !.at = now]
    /\ ak_ops' = ak_ops + 1
    /\ UNCHANGED <<now, varsCB, varsRL, varsPipe, varsCache, varsReq, varsDep, varsFn,
                   ak_master>>

\* KeyService.update_key with is_active set in the request
KeyUpdate(k, active) ==
    /\ ak_ops < MaxAuthOps
    /\ ak_keys[k] # NULL
    /\ ak_keys' = [ak_keys EXCEPT ![k] = Some([ak_keys[k][1] EXCEPT !.is_active = active])]
    /\ ak_call' = [NoAuthCall EXCEPT !.op = "update_key", !.at = now]
    /\ ak_ops' = ak_ops + 1
    /\ UNCHANGED <<now, varsCB, varsRL, varsPipe, varsCache, varsReq, varsDep, varsFn,
                   ak_master>>

\* KeyService.revoke_key
KeyRevoke(k) ==
    /\ ak_ops < MaxAuthOps
    /\ ak_keys[k] # NULL
    /\ ak_keys' = [ak_keys EXCEPT ![k] = Some([ak_keys[k][1] EXCEPT !.is_active = FALSE])]
    /\ ak_call' = [NoAuthCall EXCEPT !.op = "revoke_key", !.at = now]
    /\ ak_ops' = ak_ops + 1
    /\ UNCHANGED <<now, varsCB, varsRL, varsPipe, varsCache, varsReq, varsDep, varsFn,
                   ak_master>>

\* A request to /v1/chat/completions: the get_api_key dependency runs, and
\* the handler is entered only when it returns.
AuthRequest(bearer) ==
    /\ LET res == get_api_key(bearer, ak_keys, ak_master, now) IN
       ak_call' = [op |-> "get_api_key", bearer |-> bearer, at |-> now,
                   authenticated |-> res.authenticated,
                   status_code |-> IF res.authenticated THEN 200 ELSE 401,
                   principal |-> res.principal,
                   handler_entered |-> res.authenticated]
    /\ UNCHANGED <<now, varsCB, varsRL, varsPipe, varsCache, varsReq, varsDep, varsFn,
                   ak_keys, ak_ops, ak_master>>

AuthTick ==
    /\ now + TickSeconds <= AuthMaxNow
    /\ now' = now + TickSeconds
    /\ UNCHANGED <<varsCB, varsRL, varsPipe, varsCache, varsReq, varsDep, varsAuth, varsFn>>

NextAuth ==
    \/ \E k \in RawKeys, x \in {NULL, Some(TickSeconds)} : KeyCreate(k, x)
    \/ \E k \in RawKeys, a \in BOOLEAN : KeyUpdate(k, a)
    \/ \E k \in RawKeys : KeyRevoke(k)
    \/ \E b \in Bearers : AuthRequest(b)
    \/ AuthTick

SpecAuth == InitAuth /\ [][NextAuth]_vars

\* whether the table holds an active, unexpired key whose hash is that of
\* the bearer value, at time t
StoredValid(raw, t) ==
    \E k \in RawKeys :
        /\ ak_keys[k] # NULL
        /\ ak_keys[k][1].key_hash = hash_api_key(raw)
        /\ ak_keys[k][1].is_active
        /\ ak_keys[k][1].expires_at = NULL \/ ak_keys[k][1].expires_at[1] >= t

(***************************************************************************)
(* C23: a request is authenticated if and only if its bearer value equals  *)
(* the configured master secret or its SHA-256 hash matches a stored key   *)
(* that is active and whose expires_at is null or not earlier than now; a  *)
(* request that is not authenticated, in particular one presenting a       *)
(* revoked or expired key, gets 401 and the handler is not entered.        *)
(***************************************************************************)
C23_AuthenticatedIff ==
    ak_call.op = "get_api_key" =>
      /\ ak_call.authenticated <=>
            /\ ak_call.bearer # NULL
            /\ \/ ak_master # NULL /\ ak_call.bearer[1] = ak_master[1]
               \/ StoredValid(ak_call.bearer[1], ak_call.at)
      /\ ~ak_call.authenticated =>
            ak_call.status_code = 401 /\ ~ak_call.handler_entered
      /\ \A k \in RawKeys :
            /\ ak_call.bearer = Some(k)
            /\ ak_keys[k] # NULL
            /\ \/ ~ak_keys[k][1].is_active
               \/ /\ ak_keys[k][1].expires_at # NULL
                  /\ ak_keys[k][1].expires_at[1] < ak_call.at
            => ak_call.status_code = 401 /\ ~ak_call.handler_entered

\* a stored key that was revoked is presented and refused, while the other
\* key, at the instant of its expires_at, is still valid
C23_Witness ==
    /\ ak_call.op = "get_api_key"
    /\ ak_call.status_code = 401
    /\ \E k \in RawKeys :
          /\ ak_call.bearer = Some(k)
          /\ ak_keys[k] # NULL
          /\ ~ak_keys[k][1].is_active
    /\ \E k \in RawKeys :
          /\ ak_keys[k] # NULL
          /\ ak_keys[k][1].expires_at = Some(ak_call.at)
          /\ StoredValid(k, ak_call.at)

(***************************************************************************)
(* C24: a request that reaches the budget check is rejected with           *)
(* budget_exceeded exactly when the principal has a budget limit and       *)
(* spend_usd >= budget_limit_usd; a rejected request makes no upstream     *)
(* call, streamed or not; a principal without a budget limit is never      *)
(* rejected by the budget check.                                           *)
(***************************************************************************)
C24_BudgetCheck ==
    /\ StepsOf("budget") # {} =>
          (rr.outcome = "budget_exceeded" <=>
              /\ rr.api_key.budget_limit_usd # NULL
              /\ rr.api_key.spend_usd >= rr.api_key.budget_limit_usd[1])
    /\ rr.outcome = "budget_exceeded" =>
          /\ StepsOf("budget") # {}
          /\ StepsOf("route") \cup StepsOf("send") = {}
          /\ rr_body = <<>>
    /\ rr.api_key.budget_limit_usd = NULL => rr.outcome # "budget_exceeded"

\* a request of a key whose spend equals its limit was refused and its
\* session has ended
C24_Witness ==
    /\ rr.pc = "done"
    /\ rr.outcome = "budget_exceeded"
    /\ rr.api_key.budget_limit_usd = Some(rr.api_key.spend_usd)

(***************************************************************************)
(* C25: after a completed upstream request of a principal that has a TPM   *)
(* limit, the post-request usage record has added exactly the request's    *)
(* total token count to the principal's TPM bucket, also when the bucket's *)
(* count plus the token count exceeds the limit.                           *)
(***************************************************************************)
C25_UsageAlwaysRecorded ==
    /\ rr.api_key.rate_limit_tpm # NULL
    /\ StepsOf("tpm") # {}
    => rr_db.tpm = rr.tpm_before + rr.usage.prompt_tokens
                                 + rr.usage.completion_tokens

(***************************************************************************)
(* C26: a request of a principal whose TPM bucket has reached or exceeded  *)
(* rate_limit_tpm is rejected with rate_limited by the pre-request check:  *)
(* once it is past the access and budget checks and the rate-limit step,   *)
(* its outcome is rate_limited, and it makes no upstream call.             *)
(***************************************************************************)
C26_TpmRejectsBeforeUpstream ==
    /\ rr.api_key.rate_limit_tpm # NULL
    /\ rr.tpm_before >= rr.api_key.rate_limit_tpm[1]
    => /\ StepsOf("send") = {}
       /\ /\ rr.pc \notin {"idle", "access", "rate_limit"}
          /\ rr.outcome \notin {"access_denied", "budget_exceeded"}
          => rr.outcome = "rate_limited"

(***************************************************************************)
(* C27: whenever the KV is unreachable during a rate-limit check, on the   *)
(* first script call or on the retry after a script reload, the check      *)
(* returns allowed = true, no exception ends the request, and the          *)
(* rate-limit headers emitted for the request are empty.                   *)
(***************************************************************************)
C27_FailOpenEmptyHeaders ==
    \A w \in Workers :
        /\ rl_call[w].pc = "idle"
        /\ rl_call[w].error = "connection_error"
        => /\ ~rl_call[w].raised
           /\ rl_call[w].result.allowed
           /\ DOMAIN rl_call[w].headers = {}

\* the deployments whose upstream call failed during the request
FailedDeployments ==
    { d \in ReqDeployments :
        d # rr.used /\ \E i \in 1..Len(rr_trace) :
                          rr_trace[i].step = "send" /\ rr_trace[i].d = d }

(***************************************************************************)
(* C30: every provider error recorded during a non-streaming request is    *)
(* reflected in the committed consecutive_failures of that deployment      *)
(* after the request has finished, also when every deployment of the chain *)
(* failed and the request ended with 502.  Every deployment starts the     *)
(* request with consecutive_failures = 0.                                  *)
(***************************************************************************)
C30_FailuresDurable ==
    rr.pc = "done" /\ ~rr.stream =>
        \A d \in FailedDeployments : rr_db.deps[d].consecutive_failures = 1


(***************************************************************************)
(* C31: under any interleaving of concurrent requests, no upstream call    *)
(* is started against a deployment whose committed circuit state is OPEN   *)
(* at the moment the call starts, also when another request opened it      *)
(* after this request's route step.                                        *)
(***************************************************************************)
C31_NoCallOnOpen ==
    [][\A r \in Requests :
          rq[r].pc = "send" /\ rq'[r].pc \in {"await", "streaming"} =>
              get_state(db_dep[rq[r].chain[rq[r].idx]], now) # "open"]_vars


\* the requests whose session committed a record_failure on deployment d
CommittedFailures(d) ==
    {r \in Requests :
        /\ Finished(r)
        /\ rq[r].outcome \in Accepted
             \/ (rq[r].stream /\ rq[r].outcome = "provider_error")
        /\ \E i \in DOMAIN rq[r].recorded : rq[r].recorded[i] = <<"failure", d>>}

\* no request has recorded a success on d
NoSuccessOn(d) ==
    \A r \in Requests :
        \A i \in DOMAIN rq[r].recorded : rq[r].recorded[i] # <<"success", d>>

(***************************************************************************)
(* C32: under any interleaving of record_failure calls issued by           *)
(* concurrent requests, each in its own session, with no success in        *)
(* between: once the failures committed for a CLOSED deployment, the ones  *)
(* counted before the requests loaded it included, number                  *)
(* failure_threshold, the deployment is unhealthy with cooldown_until set. *)
(***************************************************************************)
C32_NoFailureLost ==
    \A d \in Deployments :
        LET F == CommittedFailures(d) IN
        /\ F # {}
        /\ NoSuccessOn(d)
        /\ \A r \in F : rq[r].loaded[d].is_healthy
        /\ \A r \in F :
              rq[r].loaded[d].consecutive_failures + Cardinality(F)
                  >= failure_threshold
        => /\ ~db_dep[d].is_healthy
           /\ db_dep[d].cooldown_until # NULL


\* the transitions of the circuit breaker's state machine
Transitions ==
    {<<"closed", "open">>, <<"open", "half_open">>,
     <<"half_open", "closed">>, <<"half_open", "open">>}

(***************************************************************************)
(* C33: the circuit state of a deployment, read from its committed row,    *)
(* changes only along CLOSED -> OPEN, OPEN -> HALF_OPEN, HALF_OPEN ->      *)
(* CLOSED and HALF_OPEN -> OPEN; in particular an OPEN deployment never    *)
(* becomes CLOSED without being HALF_OPEN first, also when the success of  *)
(* a request already in flight is recorded while it is OPEN.               *)
(***************************************************************************)
C33_OnlyTheFourTransitions ==
    [][\A d \in Deployments :
          LET before == get_state(db_dep[d], now)
              after == get_state(db_dep'[d], now')
          IN  before # after => <<before, after>> \in Transitions]_vars


\* the value Tier 1 holds under key k was last written by a promotion
PromotedLast(k) ==
    /\ cache_promoted[k] # NULL
    /\ \/ cache_stored[k] = NULL
       \/ ~cache_stored[k][1].written
       \/ cache_stored[k][1].at < cache_promoted[k][1].at

(***************************************************************************)
(* C34: a lookup never returns the payload of an entry whose expiry has    *)
(* passed.  A Tier-2 hit returns a row no later than its expires_at; a     *)
(* Tier-1 hit on a value written by store comes no later than the store's  *)
(* time plus the time to live; and a Tier-1 hit on a value that the        *)
(* promotion of a Tier-2 row wrote comes no later than that row's          *)
(* expires_at.                                                             *)
(***************************************************************************)
C34_NoExpiredPayload ==
    [][(/\ cache_ops' = cache_ops + 1
        /\ cache_call'.op = "lookup"
        /\ cache_call'.result.hit)
       => LET k == cache_call'.key[1] IN
          /\ cache_call'.result.source = "semantic" =>
                now <= cache_entries[cache_call'.entry].expires_at
          /\ (/\ cache_call'.result.source = "exact"
              /\ ~PromotedLast(k)
              /\ cache_stored[k] # NULL)
             => now <= cache_stored[k][1].at + exact_match_ttl_seconds
          /\ (cache_call'.result.source = "exact" /\ PromotedLast(k))
             => now <= cache_entries[cache_promoted[k][1].entry].expires_at]_vars


\* blocking_violations = [v for v in violations if v.action == "block"]:
\* what the ValidationError of run_pre_request reports
blocking_violations(violations) ==
    SelectSeq(violations, LAMBDA v : v.action = "block")

(***************************************************************************)
(* C35: the pre-request guardrail phase stops at the first blocking        *)
(* violation: when it refuses a request, the blocking violation is the     *)
(* last one any check has produced, and it is the only one the             *)
(* validation_error reports.                                               *)
(***************************************************************************)
C35_StopsAtFirstBlock ==
    rr.outcome = "validation_error" =>
        LET violations == rr.gr.violations
            n == Len(violations)
        IN  /\ n >= 1
            /\ violations[n].action = "block"
            /\ \A i \in 1..(n - 1) : violations[i].action # "block"
            /\ Len(blocking_violations(violations)) = 1


(***************************************************************************)
(* C36: a failure of the post-response guardrail step of a non-streaming   *)
(* request is swallowed: the request still ends with the upstream's        *)
(* response, the principal's spend has grown by the response's cost and    *)
(* the request's log row is in the table.                                  *)
(***************************************************************************)
C36_PostGuardrailFailureSwallowed ==
    rr.guardrail_failure = "post" /\ rr.pc = "done" =>
        /\ rr.outcome = "ok"
        /\ rr_db.spend_usd = rr.api_key.spend_usd + calculate_cost(rr.usage)
        /\ Len(rr_db.request_logs) = 1


(***************************************************************************)
(* SpecWrr: one call of WeightedRoundRobinStrategy.rank                    *)
(* (core/router/strategies.py) on a non-empty list of deployments with     *)
(* non-negative integer weights.  Deployment i of the list has weight      *)
(* wr_weights[i]; every turn of the while loop is a step.                  *)
(***************************************************************************)
WrrInputs == UNION {[1..n -> 0..MaxWeight] : n \in 1..MaxRanked}

InitWrr ==
    /\ now = 0
    /\ IdleCB
    /\ IdleRL
    /\ IdlePipe
    /\ IdleCache
    /\ IdleReq
    /\ IdleDep
    /\ IdleAuth
    /\ IdleHash
    /\ wr_weights \in WrrInputs
    /\ wr_remaining = <<>>
    /\ wr_ordered = <<>>
    /\ wr_pc = "call"

\* sum(weights) over the deployments of a list
RECURSIVE TotalWeight(_, _)
TotalWeight(weights, deployments) ==
    IF deployments = <<>> THEN 0
    ELSE weights[Head(deployments)] + TotalWeight(weights, Tail(deployments))

\* random.choices(population, weights=w, k=1)[0] for a positive total: a
\* member of positive weight
choices(population, weights) ==
    {population[i] : i \in {j \in 1..Len(population) : weights[population[j]] > 0}}

\* list.remove(chosen); the members of the list are distinct objects
Remove(list, chosen) == SelectSeq(list, LAMBDA d : d # chosen)

\* rank up to the while loop: a zero total returns the list as it came
WrrBegin ==
    /\ wr_pc = "call"
    /\ LET deployments == [i \in 1..Len(wr_weights) |-> i] IN
       IF TotalWeight(wr_weights, deployments) = 0
       THEN /\ wr_ordered' = deployments
            /\ wr_pc' = "returned"
            /\ UNCHANGED wr_remaining
       ELSE /\ wr_remaining' = deployments
            /\ wr_ordered' = <<>>
            /\ wr_pc' = "loop"
    /\ UNCHANGED <<now, varsCB, varsRL, varsPipe, varsCache, varsReq, varsDep,
                   varsAuth, varsHash, wr_weights>>

\* one turn of `while remaining`: choose, append, remove
WrrChoose ==
    /\ wr_pc = "loop"
    /\ wr_remaining # <<>>
    /\ TotalWeight(wr_weights, wr_remaining) > 0
    /\ \E chosen \in choices(wr_remaining, wr_weights) :
          /\ wr_ordered' = Append(wr_ordered, chosen)
          /\ wr_remaining' = Remove(wr_remaining, chosen)
    /\ UNCHANGED <<now, varsCB, varsRL, varsPipe, varsCache, varsReq, varsDep,
                   varsAuth, varsHash, wr_weights, wr_pc>>

\* a turn in which every remaining weight is 0: random.choices raises
\* ValueError (total of weights must be greater than zero) and nothing
\* in rank or in route catches it
WrrChoicesRaise ==
    /\ wr_pc = "loop"
    /\ wr_remaining # <<>>
    /\ TotalWeight(wr_weights, wr_remaining) = 0
    /\ wr_pc' = "raised"
    /\ UNCHANGED <<now, varsCB, varsRL, varsPipe, varsCache, varsReq, varsDep,
                   varsAuth, varsHash, wr_weights, wr_remaining, wr_ordered>>

\* `return ordered`
WrrReturn ==
    /\ wr_pc = "loop"
    /\ wr_remaining = <<>>
    /\ wr_pc' = "returned"
    /\ UNCHANGED <<now, varsCB, varsRL, varsPipe, varsCache, varsReq, varsDep,
                   varsAuth, varsHash, wr_weights, wr_remaining, wr_ordered>>

NextWrr == WrrBegin \/ WrrChoose \/ WrrChoicesRaise \/ WrrReturn

SpecWrr == InitWrr /\ [][NextWrr]_vars

\* the list has every one of the n deployments exactly once
IsPermutation(list, n) ==
    /\ Len(list) = n
    /\ \A d \in 1..n : Cardinality({i \in 1..Len(list) : list[i] = d}) = 1

(***************************************************************************)
(* C37: for every non-empty list of deployments and every assignment of    *)
(* non-negative integer weights, WeightedRoundRobinStrategy.rank returns,  *)
(* and what it returns has every deployment of its input exactly once.     *)
(***************************************************************************)
C37_RankReturnsPermutation ==
    /\ wr_pc # "raised"
    /\ wr_pc = "returned" => IsPermutation(wr_ordered, Len(wr_weights))


(***************************************************************************)
(* SpecHash: ExactMatchCache.set under the key of one (model, messages)    *)
(* input and ExactMatchCache.get under the key of another                  *)
(* (core/cache/exact.py).  A model name is any string of up to 255         *)
(* characters (schemas/deployments.py), a content any string.              *)
(***************************************************************************)
HashModels ==
    { <<"gpt-5">>, <<"gpt-x">>, <<"gpt-5", "::", "user", ": ", "hi">> }

HashMessages ==
    { <<Msg("user", <<"hi">>)>>,
      <<Msg("system", <<"be brief">>), Msg("user", <<"hi">>)>>,
      <<Msg("user", <<"hello">>)>>,
      <<Msg("user", <<"hi", "::", "user", ": ", "hi">>)>> }

HashInputs ==
    { [model |-> m, messages |-> msgs] : m \in HashModels, msgs \in HashMessages }

InitHash ==
    /\ now = 0
    /\ IdleCB
    /\ IdleRL
    /\ IdlePipe
    /\ IdleCache
    /\ IdleReq
    /\ IdleDep
    /\ IdleAuth
    /\ IdleWrr
    /\ hs_in \in HashInputs \X HashInputs
    /\ hs_kv = NULL
    /\ hs_got = NULL
    /\ hs_pc = "set"

\* the exact-cache key of an input
HashKey(input) ==
    compute_hash_text(normalize_prompt_for_embedding(input.messages), input.model)

\* ExactMatchCache.set(compute_hash(prompt_text, model), payload) for the
\* first input
HashSet ==
    /\ hs_pc = "set"
    /\ hs_kv' = Some([key |-> HashKey(hs_in[1]), payload_of |-> hs_in[1]])
    /\ hs_pc' = "get"
    /\ UNCHANGED <<now, varsCB, varsRL, varsPipe, varsCache, varsReq, varsDep,
                   varsAuth, varsWrr, hs_in, hs_got>>

\* ExactMatchCache.get(compute_hash(prompt_text, model)) for the second
\* input
HashGet ==
    /\ hs_pc = "get"
    /\ hs_got' = IF hs_kv[1].key = HashKey(hs_in[2])
                 THEN Some(hs_kv[1].payload_of) ELSE NULL
    /\ hs_pc' = "done"
    /\ UNCHANGED <<now, varsCB, varsRL, varsPipe, varsCache, varsReq, varsDep,
                   varsAuth, varsWrr, hs_in, hs_kv>>

NextHash == HashSet \/ HashGet

SpecHash == InitHash /\ [][NextHash]_vars

\* the (model, normalized prompt) pair of an input
PairOf(input) == <<input.model, normalize_prompt_for_embedding(input.messages)>>

(***************************************************************************)
(* C38: the exact-cache key is a function of (model, normalized prompt),   *)
(* so a get for the pair a set was made for returns what was set; and two  *)
(* pairs that differ in the model or in the normalized prompt never have   *)
(* the same key, so a get returns nothing that was set for another pair.   *)
(***************************************************************************)
C38_KeyInjective ==
    hs_pc = "done" =>
        /\ PairOf(hs_in[1]) = PairOf(hs_in[2]) => hs_got = Some(hs_in[1])
        /\ hs_got # NULL => PairOf(hs_got[1]) = PairOf(hs_in[2])


(***************************************************************************)
(* C39: record_failure never moves cooldown_until to an earlier instant:   *)
(* for a deployment that is unhealthy with a cooldown_until, OPEN or       *)
(* HALF_OPEN, cooldown_until after the call is at or after cooldown_until  *)
(* before it.                                                              *)
(***************************************************************************)
C39_CooldownNeverEarlier ==
    (/\ cb_call.op = "record_failure"
     /\ ~cb_call.before.is_healthy
     /\ cb_call.before.cooldown_until # NULL)
    => /\ cb_dep.cooldown_until # NULL
       /\ cb_dep.cooldown_until[1] >= cb_call.before.cooldown_until[1]


(***************************************************************************)
(* LiveCB: SpecCB with a clock that keeps advancing for as long as the     *)
(* model's horizon lets it.                                                *)
(***************************************************************************)
LiveCB == SpecCB /\ WF_vars(Tick)

\* a record_success call made on a HALF_OPEN deployment leaves it CLOSED
HalfOpenSuccessCloses ==
    [][(/\ get_state(cb_dep, now) = "half_open"
        /\ cb_call'.op = "record_success"
        /\ cb_fails' = 0
        /\ now' = now)
       => get_state(cb_dep', now') = "closed"]_vars

(***************************************************************************)
(* C40: if time keeps advancing and no further failure is recorded for     *)
(* it, an OPEN deployment (whose cooldown ends within the horizon)         *)
(* eventually is HALF_OPEN and available to the router again, and a        *)
(* success recorded for a HALF_OPEN deployment makes it CLOSED.            *)
(***************************************************************************)
C40_OpenRecovers ==
    /\ \A n \in 1..MaxFailures :
          (/\ get_state(cb_dep, now) = "open"
           /\ cb_dep.cooldown_until[1] <= MaxNow
           /\ cb_fails = n)
          ~> \/ cb_fails > n
             \/ /\ get_state(cb_dep, now) = "half_open"
                /\ is_available(cb_dep, now)
    /\ HalfOpenSuccessCloses

\* the same with no breaker call at all, success or failure, in between
OpenRecoversUndisturbed ==
    /\ \A n \in 0..MaxFailures :
          (/\ get_state(cb_dep, now) = "open"
           /\ cb_dep.cooldown_until[1] <= MaxNow
           /\ cb_fails = n)
          ~> \/ cb_fails # n
             \/ /\ get_state(cb_dep, now) = "half_open"
                /\ is_available(cb_dep, now)
    /\ HalfOpenSuccessCloses

====
